---- MODULE Spec2Model ----
(***************************************************************************)
(* A model of pdf-strings: the span/line assembler (src/src/output.rs),    *)
(* font decoding (src/src/fonts.rs) and the column aligner with the pretty *)
(* printer (src/src/utils.rs, src/src/types.rs).                           *)
(*                                                                         *)
(* Numbers.  Coordinates are f32/f64 in the source; here they are integers *)
(* (PDF points), and the thresholds the code multiplies by are kept as     *)
(* exact fractions, so every comparison of the code is decided exactly.    *)
(* The one IEEE value that integers do not have, NaN, is the sentinel NaN: *)
(* arithmetic propagates it and every comparison with it is false.         *)
(***************************************************************************)
EXTENDS Integers, Sequences, FiniteSets, TLC

(***************************************************************************)
(* Bounds of the model.                                                    *)
(***************************************************************************)
MaxGlyphs == 2
MaxPages == 2
MaxSpans == 3
MaxColumnSpans == 6
MaxClusters == 2
MaxPlainLines == 2
MaxAlignerSpans == 4
MaxOps == 4
MaxBytes == 5
MaxWLen == 3
MaxDicts == 3
MaxDepth == 4
MaxStreamLen == 2

(***************************************************************************)
(* f32 arithmetic with NaN.                                                *)
(***************************************************************************)
NaN == -999999

IsNaN(a) == a = NaN

FAdd(a, b) == IF IsNaN(a) \/ IsNaN(b) THEN NaN ELSE a + b

FSub(a, b) == IF IsNaN(a) \/ IsNaN(b) THEN NaN ELSE a - b

FMul(a, b) == IF IsNaN(a) \/ IsNaN(b) THEN NaN ELSE a * b

FAbs(a) == IF IsNaN(a) THEN NaN ELSE IF a < 0 THEN -a ELSE a

FLt(a, b) == ~IsNaN(a) /\ ~IsNaN(b) /\ a < b

FLe(a, b) == ~IsNaN(a) /\ ~IsNaN(b) /\ a <= b

FGt(a, b) == ~IsNaN(a) /\ ~IsNaN(b) /\ a > b

FEq(a, b) == ~IsNaN(a) /\ ~IsNaN(b) /\ a = b

\* f32::min and f32::max return the other operand when one is NaN.
FMin(a, b) == IF IsNaN(a) THEN b ELSE IF IsNaN(b) THEN a ELSE IF a < b THEN a ELSE b

FMax(a, b) == IF IsNaN(a) THEN b ELSE IF IsNaN(b) THEN a ELSE IF a > b THEN a ELSE b

\* f32::sqrt: NaN for a negative operand; the integer root otherwise (the
\* inputs of the model keep the operand a perfect square).
FSqrt(n) ==
    IF IsNaN(n) \/ n < 0 THEN NaN
    ELSE CHOOSE r \in 0..n : r * r <= n /\ (r + 1) * (r + 1) > n

\* f32::round of the non-negative fraction n/d: half away from zero.
RoundDiv(n, d) == (2 * n + d) \div (2 * d)

(***************************************************************************)
(* euclid::Transform2D as <<m11, m12, m21, m22, m31, m32>>.                *)
(***************************************************************************)
Identity == <<1, 0, 0, 1, 0, 0>>

Then(a, m) ==
    << FAdd(FMul(a[1], m[1]), FMul(a[2], m[3])),
       FAdd(FMul(a[1], m[2]), FMul(a[2], m[4])),
       FAdd(FMul(a[3], m[1]), FMul(a[4], m[3])),
       FAdd(FMul(a[3], m[2]), FMul(a[4], m[4])),
       FAdd(FAdd(FMul(a[5], m[1]), FMul(a[6], m[3])), m[5]),
       FAdd(FAdd(FMul(a[5], m[2]), FMul(a[6], m[4])), m[6]) >>

Translation(tx, ty) == << 1, 0, 0, 1, tx, ty >>

TransformVector(m, vx, vy) ==
    << FAdd(FMul(vx, m[1]), FMul(vy, m[3])), FAdd(FMul(vx, m[2]), FMul(vy, m[4])) >>

\* The geometric mean of the two components of trm * (font_size, font_size).
TransformedFontSize(trm, font_size) ==
    LET v == TransformVector(trm, font_size, font_size)
    IN  FSqrt(FMul(v[1], v[2]))

(***************************************************************************)
(* Program constants of the assembler.  The ratios are in hundredths, the  *)
(* glyph width is in the font's 1/1000 units.                              *)
(***************************************************************************)
BLANK_LINE_THRESHOLD_POINTS == 24
POINTS_PER_LINE == 10
CHAR_FLUSH_THRESHOLD_RATIO == 120
CHAR_SPACE_THRESHOLD_RATIO == 15
RatioUnits == 100
WidthUnits == 1000
line_break_threshold == 5

(***************************************************************************)
(* Fonts (src/src/fonts.rs).  A String is the sequence of its code points, *)
(* a ToUnicode CMap a function from character codes to the byte strings    *)
(* adobe_cmap_parser returns.                                              *)
(***************************************************************************)
MaxCode == 2

Codes == 1..MaxCode

\* UTF-16 surrogate ranges
IsSurrogate(u) == u >= 55296 /\ u <= 57343

IsHighSurrogate(u) == u >= 55296 /\ u <= 56319

IsLowSurrogate(u) == u >= 56320 /\ u <= 57343

\* lines 701-707: the big-endian 16-bit units of the byte string v
RECURSIVE BeUnits(_)
BeUnits(v) ==
    IF Len(v) < 2 THEN << >>
    ELSE << v[1] * 256 + v[2] >> \o BeUnits(SubSeq(v, 3, Len(v)))

\* String::from_utf16: the code points, or an error on an unpaired surrogate
RECURSIVE FromUtf16(_)
FromUtf16(be) ==
    IF be = << >> THEN [ ok |-> TRUE, s |-> << >> ]
    ELSE IF IsHighSurrogate(be[1]) /\ Len(be) >= 2 /\ IsLowSurrogate(be[2])
    THEN LET rest == FromUtf16(SubSeq(be, 3, Len(be)))
         IN  [ ok |-> rest.ok,
               s  |-> << 65536 + (be[1] - 55296) * 1024 + (be[2] - 56320) >> \o rest.s ]
    ELSE IF IsSurrogate(be[1]) THEN [ ok |-> FALSE, s |-> << >> ]
    ELSE LET rest == FromUtf16(SubSeq(be, 2, Len(be)))
         IN  [ ok |-> rest.ok, s |-> << be[1] >> \o rest.s ]

\* lines 708-713: a lone surrogate unit is skipped
SkippedEntry(v) == Len(BeUnits(v)) = 1 /\ IsSurrogate(BeUnits(v)[1])

\* lines 703 and 714: the assert and the unwrap that abort
EntryPanics(v) == Len(v) % 2 # 0 \/ (~SkippedEntry(v) /\ ~FromUtf16(BeUnits(v)).ok)

\* get_unicode_map: Option<HashMap<u32, String>>, or a panic.  The map is a
\* function on the codes that have an entry.
get_unicode_map(to_unicode) ==
    IF to_unicode.kind = "stream"
    THEN LET cmap == to_unicode.cmap
         IN  IF \E k \in DOMAIN cmap : EntryPanics(cmap[k])
             THEN [ panic |-> TRUE, some |-> FALSE, map |-> << >> ]
             ELSE [ panic |-> FALSE, some |-> TRUE,
                    map |-> [ k \in { c \in DOMAIN cmap : ~SkippedEntry(cmap[c]) } |->
                                FromUtf16(BeUnits(cmap[k])).s ] ]
    ELSE IF to_unicode.kind = "name" /\ to_unicode.name # "Identity-H"
    THEN [ panic |-> TRUE, some |-> FALSE, map |-> << >> ]
    ELSE [ panic |-> FALSE, some |-> FALSE, map |-> << >> ]

\* PDFDocEncoding on the codes of the model: code c is U+00cc for c < 24
PDFDocEncoding == [ c \in Codes |-> c ]

\* to_utf8(encoding, [char]) for one byte: a zero table entry is skipped
to_utf8(encoding, char) == IF encoding[char] = 0 THEN << >> ELSE << encoding[char] >>

\* str::contains('\0')
ContainsNul(str) == \E i \in DOMAIN str : str[i] = 0

Decoded(c, str, src) == [ called |-> TRUE, char |-> c, s |-> str, source |-> src ]

\* PdfSimpleFont::decode_char and PdfType3Font::decode_char (the same code)
PdfSimpleFont_decode_char(f, char) ==
    IF f.unicode_map.some
    THEN IF char \in DOMAIN f.unicode_map.map
         THEN Decoded(char, f.unicode_map.map[char], "tounicode")
         ELSE IF f.encoding.some
              THEN Decoded(char, to_utf8(f.encoding.table, char), "encoding")
              ELSE Decoded(char, << >>, "panic")
    ELSE Decoded(char,
                 to_utf8(IF f.encoding.some THEN f.encoding.table ELSE PDFDocEncoding, char),
                 "encoding")

\* a decode_char that returns whatever ToUnicode holds
PdfCIDFont_decode_char_unfiltered(f, char) ==
    IF f.unicode_map.some /\ char \in DOMAIN f.unicode_map.map
    THEN Decoded(char, f.unicode_map.map[char], "tounicode")
    ELSE IF f.fallback_unicode.some /\ char \in DOMAIN f.fallback_unicode.map
    THEN Decoded(char, f.fallback_unicode.map[char], "embedded")
    ELSE IF f.width_fallback.some /\ char \in DOMAIN f.width_fallback.map
    THEN Decoded(char, f.width_fallback.map[char], "width")
    ELSE Decoded(char, << >>, "none")

\* PdfCIDFont::decode_char
PdfCIDFont_decode_char(f, char) ==
    IF /\ f.unicode_map.some
       /\ char \in DOMAIN f.unicode_map.map
       /\ f.unicode_map.map[char] # << >>
       /\ ~ContainsNul(f.unicode_map.map[char])
    THEN Decoded(char, f.unicode_map.map[char], "tounicode")
    ELSE IF f.fallback_unicode.some /\ char \in DOMAIN f.fallback_unicode.map
    THEN Decoded(char, f.fallback_unicode.map[char], "embedded")
    ELSE IF f.width_fallback.some /\ char \in DOMAIN f.width_fallback.map
    THEN Decoded(char, f.width_fallback.map[char], "width")
    ELSE Decoded(char, << >>, "none")

\* the constructors, as far as decode_char reads what they build: the
\* ToUnicode map of get_unicode_map; the encoding table and the two fallback
\* maps are taken as built
BuildFont(dict) ==
    [ subtype          |-> dict.subtype,
      unicode_map      |-> get_unicode_map(dict.to_unicode),
      encoding         |-> dict.encoding,
      fallback_unicode |-> dict.fallback_unicode,
      width_fallback   |-> dict.width_fallback ]

NoFont ==
    [ subtype          |-> "none",
      unicode_map      |-> [ panic |-> FALSE, some |-> FALSE, map |-> << >> ],
      encoding         |-> [ some |-> FALSE, table |-> << >> ],
      fallback_unicode |-> [ some |-> FALSE, map |-> << >> ],
      width_fallback   |-> [ some |-> FALSE, map |-> << >> ] ]

NoFontDict ==
    [ subtype          |-> "none",
      to_unicode       |-> [ kind |-> "none", name |-> "", cmap |-> << >> ],
      encoding         |-> [ some |-> FALSE, table |-> << >> ],
      fallback_unicode |-> [ some |-> FALSE, map |-> << >> ],
      width_fallback   |-> [ some |-> FALSE, map |-> << >> ] ]

NotDecoded == [ called |-> FALSE, char |-> 0, s |-> << >>, source |-> "none" ]

(***************************************************************************)
(* The column aligner (src/src/utils.rs) and the pretty printer            *)
(* (src/src/types.rs).  A mean right edge is the exact fraction            *)
(* [num, den] in lowest terms.  clusters is a HashMap: its iteration order *)
(* is not determined by its contents, and is the parameter ord, a sequence *)
(* of the cluster ids.                                                     *)
(***************************************************************************)
CLUSTER_THRESHOLD == 8
MIN_SPANS_FOR_COLUMN == 3
MIN_LEFT_VARIATION == 50
MIN_COLUMN_POSITION == 200
MAX_RIGHT_VARIATION_TENTHS == 37
FAR_RIGHT_POSITION == 450
MIN_LEFT_VARIATION_FAR_RIGHT == 5
ALIGNMENT_THRESHOLD == 16
MONOSPACE_CHAR_WIDTH_POINTS == 4

Abs(n) == IF n < 0 THEN -n ELSE n

RECURSIVE Gcd(_, _)
Gcd(a, b) == IF b = 0 THEN a ELSE Gcd(b, a % b)

Fraction(n, d) == [ num |-> n \div Gcd(n, d), den |-> d \div Gcd(n, d) ]

\* lines 284-292
RECURSIVE Flatten(_)
Flatten(ls) == IF ls = << >> THEN << >> ELSE ls[1] \o Flatten(SubSeq(ls, 2, Len(ls)))

AllEdges(ls) ==
    LET all == Flatten(ls)
    IN  [ i \in 1..Len(all) |-> [ left_x |-> all[i].bbox.l, right_x |-> all[i].bbox.r ] ]

RECURSIVE SumRight(_)
SumRight(cluster) ==
    IF cluster = << >> THEN 0 ELSE cluster[1].right_x + SumRight(SubSeq(cluster, 2, Len(cluster)))

\* lines 306-307: |right_x - center| as the fraction num / den
Distance(edges, cluster) ==
    [ num |-> Abs(edges.right_x * Len(cluster) - SumRight(cluster)), den |-> Len(cluster) ]

DistLess(d1, d2) == d1.num * d2.den < d2.num * d1.den

\* lines 302-313: the scan of the clusters in the order ord; best is
\* found_cluster with min_distance (f32::MAX while none is found)
RECURSIVE FindCluster(_, _, _, _)
FindCluster(clusters, ord, edges, best) ==
    IF ord = << >> THEN best
    ELSE LET id == ord[1]
             rest == SubSeq(ord, 2, Len(ord))
         IN  IF id \notin DOMAIN clusters THEN FindCluster(clusters, rest, edges, best)
             ELSE LET distance == Distance(edges, clusters[id])
                  IN  IF /\ distance.num < CLUSTER_THRESHOLD * distance.den
                         /\ (~best.some \/ DistLess(distance, best.min_distance))
                      THEN FindCluster(clusters, rest, edges,
                                       [ some |-> TRUE, id |-> id, min_distance |-> distance ])
                      ELSE FindCluster(clusters, rest, edges, best)

NotFound == [ some |-> FALSE, id |-> 0, min_distance |-> [ num |-> 0, den |-> 1 ] ]

\* lines 301-321: one edge joins the nearest cluster or starts a new one
AddEdge(st, ord, edges) ==
    LET found == FindCluster(st.clusters, ord, edges, NotFound)
    IN  IF found.some
        THEN [ st EXCEPT !.clusters[found.id] = Append(@, edges) ]
        ELSE [ clusters   |-> [ id \in 0..st.cluster_id |->
                                  IF id = st.cluster_id THEN << edges >> ELSE st.clusters[id] ],
               cluster_id |-> st.cluster_id + 1 ]

RECURSIVE Clusters(_, _, _)
Clusters(st, ord, all_edges) ==
    IF all_edges = << >> THEN st
    ELSE Clusters(AddEdge(st, ord, all_edges[1]), ord, SubSeq(all_edges, 2, Len(all_edges)))

MinOf(S) == CHOOSE x \in S : \A y \in S : x <= y

MaxOf(S) == CHOOSE x \in S : \A y \in S : x >= y

\* a test with the one threshold MIN_LEFT_VARIATION
IsColumn_one_threshold(cluster) ==
    /\ Len(cluster) >= MIN_SPANS_FOR_COLUMN
    /\ LET lefts  == { cluster[i].left_x : i \in DOMAIN cluster }
           rights == { cluster[i].right_x : i \in DOMAIN cluster }
           left_variation  == MaxOf(lefts) - MinOf(lefts)
           right_variation == MaxOf(rights) - MinOf(rights)
           sum == SumRight(cluster)
       IN  /\ left_variation >= MIN_LEFT_VARIATION
           /\ 10 * right_variation < MAX_RIGHT_VARIATION_TENTHS
           /\ sum >= MIN_COLUMN_POSITION * Len(cluster)

\* lines 325-354
IsColumn(cluster) ==
    /\ Len(cluster) >= MIN_SPANS_FOR_COLUMN
    /\ LET lefts  == { cluster[i].left_x : i \in DOMAIN cluster }
           rights == { cluster[i].right_x : i \in DOMAIN cluster }
           left_variation  == MaxOf(lefts) - MinOf(lefts)
           right_variation == MaxOf(rights) - MinOf(rights)
           sum == SumRight(cluster)
           left_variation_threshold ==
               IF sum >= FAR_RIGHT_POSITION * Len(cluster)
               THEN MIN_LEFT_VARIATION_FAR_RIGHT ELSE MIN_LEFT_VARIATION
       IN  /\ left_variation >= left_variation_threshold
           /\ 10 * right_variation < MAX_RIGHT_VARIATION_TENTHS
           /\ sum >= MIN_COLUMN_POSITION * Len(cluster)

\* lines 323-360: the qualifying means in the order clusters.values() yields
RECURSIVE Positions(_, _)
Positions(clusters, ord) ==
    IF ord = << >> THEN << >>
    ELSE LET id == ord[1]
             rest == Positions(clusters, SubSeq(ord, 2, Len(ord)))
         IN  IF id \in DOMAIN clusters /\ IsColumn(clusters[id])
             THEN << Fraction(SumRight(clusters[id]), Len(clusters[id])) >> \o rest
             ELSE rest

\* the clusters built from all the edges, with the next cluster_id
ClustersOf(ls, ord) == Clusters([ clusters |-> << >>, cluster_id |-> 0 ], ord, AllEdges(ls))

detect_right_aligned_columns(ls, ord) ==
    IF AllEdges(ls) = << >> THEN << >>
    ELSE Positions(ClustersOf(ls, ord).clusters, ord)

\* TextSpan::x_to_col of the fraction x
x_to_col(x) == RoundDiv(x.num, MONOSPACE_CHAR_WIDTH_POINTS * x.den)

\* |right_x - pos_x| < threshold
Near(right_x, pos_x, threshold) == Abs(right_x * pos_x.den - pos_x.num) < threshold * pos_x.den

\* TextSpan::is_right_aligned
is_right_aligned(span, positions, threshold) ==
    \E i \in DOMAIN positions : Near(span.bbox.r, positions[i], threshold)

\* lines 163-165: Iterator::find, the first position near the right edge
FindPosition(span, positions) ==
    positions[MinOf({ i \in DOMAIN positions : Near(span.bbox.r, positions[i], ALIGNMENT_THRESHOLD) })]

\* lines 158-201: one span laid on the line.  The line is kept as the
\* sequence of [pad, text]: pad spaces, then the text of a span.
PlaceSpan(lo, span, target_start_col) ==
    LET text_len == Len(span.text)
    IN  IF target_start_col > lo.cursor_col
        THEN [ out |-> Append(lo.out, [ pad |-> target_start_col - lo.cursor_col,
                                         text |-> span.text ]),
               cursor_col |-> target_start_col + text_len ]
        ELSE IF lo.cursor_col > 0
        THEN [ out |-> Append(lo.out, [ pad |-> 1, text |-> span.text ]),
               cursor_col |-> lo.cursor_col + 1 + text_len ]
        ELSE [ out |-> Append(lo.out, [ pad |-> 0, text |-> span.text ]),
               cursor_col |-> lo.cursor_col + text_len ]

\* usize::saturating_sub
saturating_sub(a, b) == IF a > b THEN a - b ELSE 0

RECURSIVE PrettyLine(_, _, _)
PrettyLine(lo, line, positions) ==
    IF line = << >> THEN lo.out
    ELSE LET span == line[1]
             target == IF is_right_aligned(span, positions, ALIGNMENT_THRESHOLD)
                       THEN saturating_sub(x_to_col(FindPosition(span, positions)), Len(span.text))
                       ELSE x_to_col([ num |-> span.bbox.l, den |-> 1 ])
         IN  PrettyLine(PlaceSpan(lo, span, target), SubSeq(line, 2, Len(line)), positions)

\* TextOutput::to_string_pretty after line 146, given the detected columns
PrettyText(ls, right_aligned_positions) ==
    [ i \in 1..Len(ls) |->
        PrettyLine([ out |-> << >>, cursor_col |-> 0 ], ls[i], right_aligned_positions) ]

(***************************************************************************)
(* State.                                                                  *)
(***************************************************************************)
VARIABLES
    flip_ctm, buf_start_x, buf_start_y, buf_end_x, last_x, last_y,
    buf_font_size, buf_ctm, buf, first_char, current_page, spans,
    glyphs,      \* history: the texts of the glyph events so far
    lines,       \* the result of into_lines
    pc,          \* position of the caller of the assembler
    fontdict,    \* the font dictionary of the document
    font,        \* the font object make_font built
    decoded,     \* the last call of decode_char and its result
    font_pc,     \* position of the caller of the font
    output_lines, \* TextOutput.lines, the input of the pretty printer
    pretty,      \* per extraction run: the detected columns and the pretty text
    plain,       \* what Display has written for output_lines
    xpc,         \* position of extract_from_document
    password,    \* PdfExtractor.password
    npages,      \* the number of pages of the document
    page_no,     \* page_num of the page loop
    frames,      \* the running calls of process_stream
    nops,        \* the operators (TJ: the array elements) interpreted so far
    log,         \* the warnings written
    result,      \* what extract_from_document returned
    shows,       \* history: page and call depth of each glyph shown
    made,        \* history: the calls of make_font for FontName on this page
    encoding,    \* PdfCIDFont.encoding: the codespace and CID ranges
    iter,        \* the bytes of the string next_char has not read
    char_read,   \* the result of the last call of next_char
    ciddict,     \* the W and DW entries of a CID font dictionary
    cidwidths,   \* PdfCIDFont.widths and default_width, once built
    pagetree,    \* the dictionaries get_inherited walks, by object id
    walk,        \* the call of get_inherited: its dictionary and its result
    streams,     \* the content streams of a stored page and of its form XObjects
    calls        \* the calls of process_stream on them: stream and position

asmVars == << flip_ctm, buf_start_x, buf_start_y, buf_end_x, last_x, last_y,
              buf_font_size, buf_ctm, buf, first_char, current_page, spans, glyphs >>

fontVars == << fontdict, font, decoded, font_pc >>

colVars == << output_lines, pretty >>

procVars == << xpc, password, npages, page_no, frames, nops, log, result, shows,
              made >>

cidVars == << encoding, iter, char_read >>

widthVars == << ciddict, cidwidths >>
treeVars == << pagetree, walk >>
callVars == << streams, calls >>

vars == << asmVars, lines, pc, fontVars, colVars, plain, procVars, cidVars, widthVars, treeVars, callVars >>

\* what the assembler and into_lines leave alone
restOfAsm == << fontVars, colVars, plain, cidVars, widthVars, treeVars, callVars >>

\* what the font operations leave alone
restOfFonts == << asmVars, lines, pc, colVars, plain, procVars, cidVars, widthVars, treeVars, callVars >>

\* what the pretty printer leaves alone
restOfCols == << asmVars, lines, pc, fontVars, plain, procVars, cidVars, widthVars, treeVars, callVars >>

\* what Display leaves alone
restOfPlain == << asmVars, lines, pc, fontVars, colVars, procVars, cidVars, widthVars, treeVars, callVars >>

\* what next_char leaves alone
restOfCid == << asmVars, lines, pc, fontVars, colVars, plain, procVars, widthVars, treeVars, callVars >>

\* what the parsing of W leaves alone
restOfWidths == << asmVars, lines, pc, fontVars, colVars, plain, procVars, cidVars,
                  treeVars, callVars >>
restOfTree == << asmVars, lines, pc, fontVars, colVars, plain, procVars, cidVars,
                widthVars, callVars >>
restOfCalls == << asmVars, lines, pc, fontVars, colVars, plain, procVars, cidVars,
                 widthVars, treeVars >>

(***************************************************************************)
(* BoundingBoxOutput::new                                                  *)
(***************************************************************************)
\* the fields other than spans
new_buffer ==
    /\ flip_ctm = Identity
    /\ buf_start_x = 0
    /\ buf_start_y = 0
    /\ buf_end_x = 0
    /\ last_x = 0
    /\ last_y = 0
    /\ buf_font_size = 0
    /\ buf_ctm = Identity
    /\ buf = << >>
    /\ first_char = FALSE
    /\ current_page = 0

new ==
    /\ new_buffer
    /\ spans = << >>

(***************************************************************************)
(* A text span and BoundingBoxOutput::flush_string.  end_x is the value of *)
(* buf_end_x at the call (output_character may have patched it).           *)
(***************************************************************************)
SpanOf(end_x) ==
    [ text |-> buf,
      bbox |-> [ t |-> FAdd(buf_start_y, TransformedFontSize(buf_ctm, buf_font_size)),
                 r |-> FMax(buf_start_x, end_x),
                 b |-> buf_start_y,
                 l |-> FMin(buf_start_x, end_x) ],
      font_size |-> buf_font_size,
      page_num |-> current_page ]

\* a flush that does not test the buffer
flush_string_unchecked(end_x) == Append(spans, SpanOf(end_x))

flush_string(end_x) == IF Len(buf) # 0 THEN Append(spans, SpanOf(end_x)) ELSE spans

(***************************************************************************)
(* The comparisons of output_character on gap_ratio = gap / tfs, with k in *)
(* hundredths.  tfs is a square root: NaN, zero or positive.               *)
(***************************************************************************)
RatioAbsGt(gap, tfs, k) ==
    IF IsNaN(gap) \/ IsNaN(tfs) THEN FALSE
    ELSE IF tfs = 0 THEN gap # 0
    ELSE RatioUnits * FAbs(gap) > k * tfs

RatioGt(gap, tfs, k) ==
    IF IsNaN(gap) \/ IsNaN(tfs) THEN FALSE
    ELSE IF tfs = 0 THEN gap > 0
    ELSE RatioUnits * gap > k * tfs

\* width * transformed_font_size, width in 1/1000 units
WidthTimes(width, tfs) == IF IsNaN(tfs) THEN NaN ELSE (width * tfs) \div WidthUnits

is_whitespace(c) == c \in {" ", "\t"}

\* a tab that stays a tab
NormalizedChar_keeps_tab(char) == char

\* line 219
NormalizedChar(char) == IF char = << "\t" >> THEN << " " >> ELSE char

(***************************************************************************)
(* BoundingBoxOutput::begin_page / end_page / output_character             *)
(***************************************************************************)
begin_page(page_num, height) ==
    /\ pc = "pages"
    /\ current_page' = page_num
    /\ flip_ctm' = << 1, 0, 0, -1, 0, height >>
    /\ UNCHANGED << buf_start_x, buf_start_y, buf_end_x, last_x, last_y, buf_font_size,
                    buf_ctm, buf, first_char, spans, glyphs, lines, pc >>
    /\ UNCHANGED restOfAsm

end_page ==
    /\ pc = "pages"
    /\ spans' = flush_string(buf_end_x)
    /\ buf' = << >>
    /\ UNCHANGED << flip_ctm, buf_start_x, buf_start_y, buf_end_x, last_x, last_y,
                    buf_font_size, buf_ctm, first_char, current_page, glyphs, lines, pc >>
    /\ UNCHANGED restOfAsm

\* the decision of lines 234-249, on the state before the call
PatchedEndX(x, y, tfs) ==
    IF FEq(buf_end_x, last_x) /\ FLt(FMul(2, FAbs(FSub(y, last_y))), tfs)
    THEN x ELSE buf_end_x

\* a decision without the test of a glyph that starts left of the buffer's end
ShouldFlush_two_tests(x, y, tfs) ==
    LET end_x == PatchedEndX(x, y, tfs)
        gap   == FSub(x, end_x)
        y_gap == FAbs(FSub(y, last_y))
    IN  \/ FGt(FMul(2, y_gap), FMul(3, tfs))
        \/ RatioAbsGt(gap, tfs, CHAR_FLUSH_THRESHOLD_RATIO)

ShouldFlush(x, y, tfs) ==
    LET end_x == PatchedEndX(x, y, tfs)
        gap   == FSub(x, end_x)
        y_gap == FAbs(FSub(y, last_y))
    IN  \/ FGt(FMul(2, y_gap), FMul(3, tfs))
        \/ (FLt(x, end_x) /\ FGt(FMul(2, y_gap), tfs))
        \/ RatioAbsGt(gap, tfs, CHAR_FLUSH_THRESHOLD_RATIO)

\* a decision that does not look at the buffer's last character
WillInsertSpace_any_last(x, y, tfs) ==
    LET end_x == PatchedEndX(x, y, tfs)
        gap   == FSub(x, end_x)
    IN  RatioGt(gap, tfs, CHAR_SPACE_THRESHOLD_RATIO)

WillInsertSpace(x, y, tfs) ==
    LET end_x == PatchedEndX(x, y, tfs)
        gap   == FSub(x, end_x)
    IN  /\ ~is_whitespace(buf[Len(buf)])
        /\ RatioGt(gap, tfs, CHAR_SPACE_THRESHOLD_RATIO)

output_character(trm, width, font_size, char) ==
    LET position == Then(trm, flip_ctm)
        tfs      == TransformedFontSize(trm, font_size)
        x        == position[5]
        y        == position[6]
        nchar    == NormalizedChar(char)
    IN  /\ pc = "pages"
        /\ Len(glyphs) < MaxGlyphs
        /\ glyphs' = Append(glyphs, char)
        /\ IF Len(buf) = 0
           THEN /\ buf_start_x' = x
                /\ buf_start_y' = y
                /\ buf_font_size' = font_size
                /\ buf_ctm' = trm
                /\ buf' = nchar
                /\ spans' = spans
           ELSE IF ShouldFlush(x, y, tfs)
           THEN /\ spans' = flush_string(PatchedEndX(x, y, tfs))
                /\ buf_start_x' = x
                /\ buf_start_y' = y
                /\ buf_font_size' = font_size
                /\ buf_ctm' = trm
                /\ buf' = nchar
           ELSE /\ buf' = (IF WillInsertSpace(x, y, tfs) THEN Append(buf, " ") ELSE buf) \o nchar
                /\ UNCHANGED << buf_start_x, buf_start_y, buf_font_size, buf_ctm, spans >>
        /\ first_char' = FALSE
        /\ last_x' = x
        /\ last_y' = y
        /\ buf_end_x' = FAdd(x, WidthTimes(width, tfs))
        /\ UNCHANGED << flip_ctm, current_page, lines, pc >>
        /\ UNCHANGED restOfAsm


(***************************************************************************)
(* BoundingBoxOutput::into_lines.  slice::sort_by is a stable sort; with   *)
(* the comparators below (partial_cmp(..).unwrap_or(Equal)) it is modelled *)
(* as the insertion sort the standard library runs on short slices: an     *)
(* element moves left while it compares Less than its left neighbour.      *)
(***************************************************************************)
\* the comparator of lines 61-68 returns Less
PageTopLess(a, b) ==
    IF a.page_num # b.page_num THEN a.page_num < b.page_num
    ELSE FLt(a.bbox.t, b.bbox.t)

\* the comparator of lines 85-90, 110-115 and 140-145 returns Less
LeftLess(a, b) == FLt(a.bbox.l, b.bbox.l)

RECURSIVE InsertByPageTop(_, _)
InsertByPageTop(s, x) ==
    IF s = << >> THEN << x >>
    ELSE IF PageTopLess(x, s[Len(s)])
         THEN Append(InsertByPageTop(SubSeq(s, 1, Len(s) - 1), x), s[Len(s)])
         ELSE Append(s, x)

RECURSIVE SortByPageTop(_)
SortByPageTop(s) ==
    IF s = << >> THEN << >>
    ELSE InsertByPageTop(SortByPageTop(SubSeq(s, 1, Len(s) - 1)), s[Len(s)])

RECURSIVE InsertByLeft(_, _)
InsertByLeft(s, x) ==
    IF s = << >> THEN << x >>
    ELSE IF LeftLess(x, s[Len(s)])
         THEN Append(InsertByLeft(SubSeq(s, 1, Len(s) - 1), x), s[Len(s)])
         ELSE Append(s, x)

RECURSIVE SortByLeft(_)
SortByLeft(s) ==
    IF s = << >> THEN << >>
    ELSE InsertByLeft(SortByLeft(SubSeq(s, 1, Len(s) - 1)), s[Len(s)])

\* Option<f32> / Option<u32>
None == [ some |-> FALSE, v |-> 0 ]

Some(x) == [ some |-> TRUE, v |-> x ]

\* lines 84-93, 108-118, 138-147: push the current line if not empty, sorted
\* without the sort
PushLineUnsorted(ls, current_line) ==
    IF current_line # << >> THEN Append(ls, current_line) ELSE ls

PushLine(ls, current_line) ==
    IF current_line # << >> THEN Append(ls, SortByLeft(current_line)) ELSE ls

\* the loop of line 125 as it is commented out: blank_lines separators
BlankLines_repeated(y_gap) ==
    IF FGt(y_gap, BLANK_LINE_THRESHOLD_POINTS)
    THEN LET blank_lines == RoundDiv(y_gap - POINTS_PER_LINE, POINTS_PER_LINE)
         IN  [ i \in 1..blank_lines |-> << >> ]
    ELSE << >>

\* lines 121-129: the blank separators pushed for a gap of y_gap points (the
\* loop over 0..blank_lines is commented out: one push)
BlankLines(y_gap) ==
    IF FGt(y_gap, BLANK_LINE_THRESHOLD_POINTS)
    THEN LET blank_lines == RoundDiv(y_gap - POINTS_PER_LINE, POINTS_PER_LINE)
         IN  IF blank_lines >= 1 THEN << << >> >> ELSE << >>
    ELSE << >>

\* a page change that is never seen
IsNewPageNever(st, span_page) == FALSE

\* lines 81-82
IsNewPage(st, span_page) == st.last_page.some /\ span_page # st.last_page.v

\* a page change that keeps last_y
PageBreakKeepsLastY(st) ==
    [ st EXCEPT !.lines = Append(PushLine(st.lines, st.current_line), << >>),
                !.current_line = << >> ]

\* lines 83-96
PageBreak(st) ==
    [ st EXCEPT !.lines = Append(PushLine(st.lines, st.current_line), << >>),
                !.current_line = << >>,
                !.last_y = None ]

\* lines 100-131
LineBreak(st, span_y) ==
    LET y_gap == FAbs(FSub(span_y, st.last_y.v))
    IN  IF st.last_y.some /\ FGt(y_gap, line_break_threshold)
        THEN [ st EXCEPT !.lines = PushLine(st.lines, st.current_line) \o BlankLines(y_gap),
                         !.current_line = << >> ]
        ELSE st

\* one iteration of the loop of lines 75-136 on the loop state st
LineStep(st, span) ==
    LET span_y    == span.bbox.b
        span_page == span.page_num
        st1       == IF IsNewPage(st, span_page) THEN PageBreak(st) ELSE st
        st2       == LineBreak(st1, span_y)
    IN  [ st2 EXCEPT !.current_line = Append(st2.current_line, span),
                     !.last_y = Some(span_y),
                     !.last_page = Some(span_page) ]

RECURSIVE LineLoop(_, _)
LineLoop(st, s) ==
    IF s = << >> THEN st ELSE LineLoop(LineStep(st, s[1]), SubSeq(s, 2, Len(s)))

IntoLines(s) ==
    IF s = << >> THEN << >>
    ELSE LET st == LineLoop([ lines |-> << >>, current_line |-> << >>,
                              last_y |-> None, last_page |-> None ],
                            SortByPageTop(s))
         IN  PushLine(st.lines, st.current_line)

\* into_lines consumes the assembler
into_lines ==
    /\ pc = "pages"
    /\ lines' = IntoLines(spans)
    /\ pc' = "done"
    /\ UNCHANGED asmVars
    /\ UNCHANGED restOfAsm

(***************************************************************************)
(* make_font and decode_char on the font it built.                         *)
(***************************************************************************)
\* get_unicode_map aborts, or PdfType3Font::new finds no Encoding (line 590)
MakeFontPanics(dict) ==
    \/ get_unicode_map(dict.to_unicode).panic
    \/ (dict.subtype = "Type3" /\ ~dict.encoding.some)

make_font ==
    /\ font_pc = "start"
    /\ IF MakeFontPanics(fontdict)
       THEN font_pc' = "panicked" /\ font' = font
       ELSE font_pc' = "ready" /\ font' = BuildFont(fontdict)
    /\ UNCHANGED << fontdict, decoded >>
    /\ UNCHANGED restOfFonts

decode_char(char) ==
    /\ font_pc = "ready"
    /\ decoded' = IF font.subtype = "Type0"
                  THEN PdfCIDFont_decode_char(font, char)
                  ELSE PdfSimpleFont_decode_char(font, char)
    /\ font_pc' = IF decoded'.source = "panic" THEN "panicked" ELSE "ready"
    /\ UNCHANGED << fontdict, font >>
    /\ UNCHANGED restOfFonts

(***************************************************************************)
(* PdfCIDFont::next_char (fonts.rs 1168-1188).  A code is a u32.           *)
(***************************************************************************)
CodeRange(start, end, width) == [ start |-> start, end |-> end, width |-> width ]

CIDRange(src_code_lo, src_code_hi, dst_CID_lo) ==
    [ src_code_lo |-> src_code_lo, src_code_hi |-> src_code_hi, dst_CID_lo |-> dst_CID_lo ]

NoEncoding == [ codespace |-> << >>, cid |-> << >> ]

\* Option<(CharCode, u8)>, and whether next_char has been called
NotRead == [ called |-> FALSE, some |-> FALSE, cid |-> 0, width |-> 0 ]

NoChar == [ called |-> TRUE, some |-> FALSE, cid |-> 0, width |-> 0 ]

SomeChar(cid, width) == [ called |-> TRUE, some |-> TRUE, cid |-> cid, width |-> width ]

\* line 1179: (c as u32) << 8 shifts the top byte of c out
Shl8(c) == (c % 16777216) * 256

\* line 1173: some codespace range of this width holds c
InCodespace(enc, c, width) ==
    \E k \in DOMAIN enc.codespace :
        /\ c >= enc.codespace[k].start
        /\ c <= enc.codespace[k].end
        /\ enc.codespace[k].width = width

\* lines 1171-1180: the loop over the widths 1 to 4.  found is FALSE when
\* the function has returned None, at an exhausted iterator or after the loop.
RECURSIVE ScanCode(_, _, _, _)
ScanCode(enc, c, width, rest) ==
    IF width > 4 THEN [ found |-> FALSE, c |-> c, width |-> width, rest |-> rest ]
    ELSE IF InCodespace(enc, c, width)
    THEN [ found |-> TRUE, c |-> c, width |-> width, rest |-> rest ]
    ELSE IF rest = << >>
    THEN [ found |-> FALSE, c |-> c, width |-> width, rest |-> rest ]
    ELSE ScanCode(enc, Shl8(c) + Head(rest), width + 1, Tail(rest))

\* line 1184: code.0 + range.dst_CID_lo
Translate(range, code) == code + range.dst_CID_lo

\* lines 1182-1187: the first CID range that holds the code
RECURSIVE ToCID(_, _, _)
ToCID(cid, code, width) ==
    IF cid = << >> THEN NoChar
    ELSE IF code >= Head(cid).src_code_lo /\ code <= Head(cid).src_code_hi
    THEN SomeChar(Translate(Head(cid), code), width)
    ELSE ToCID(Tail(cid), code, width)

\* the result and the iterator after the call
PdfCIDFont_next_char(enc, bytes) ==
    IF bytes = << >> THEN [ value |-> NoChar, rest |-> bytes ]
    ELSE LET scan == ScanCode(enc, Head(bytes), 1, Tail(bytes))
         IN  [ value |-> IF scan.found THEN ToCID(enc.cid, scan.c, scan.width) ELSE NoChar,
               rest  |-> scan.rest ]

\* one turn of the loop of show_text (processor.rs 50): the loop ends at None
next_char ==
    /\ char_read # NoChar
    /\ char_read' = PdfCIDFont_next_char(encoding, iter).value
    /\ iter' = PdfCIDFont_next_char(encoding, iter).rest
    /\ UNCHANGED encoding
    /\ UNCHANGED restOfCid

(***************************************************************************)
(* The widths of a CID font: PdfCIDFont::new (fonts.rs 1114-1140) and      *)
(* PdfCIDFont::get_width (1157-1166).  An element of W is an integer or an *)
(* array of numbers.                                                       *)
(***************************************************************************)
WInt(n) == [ kind |-> "Integer", v |-> n, a |-> << >> ]

WArray(a) == [ kind |-> "Array", v |-> 0, a |-> a ]

\* get::<Option<Vec<&Object>>>(doc, ciddict, b"W") is None
NoW == [ some |-> FALSE, v |-> << >> ]

NoCidDict == [ w |-> NoW, dw |-> None ]

NotBuilt == [ state |-> "none", widths |-> << >>, default_width |-> 0 ]

\* HashMap::insert
Insert(map, k, v) == [ c \in DOMAIN map \cup { k } |-> IF c = k THEN v ELSE map[c] ]

\* lines 1122-1128: the widths of wa go to cid, cid + 1, ...
RECURSIVE InsertAll(_, _, _)
InsertAll(map, cid, wa) ==
    IF wa = << >> THEN map
    ELSE InsertAll(Insert(map, cid, Head(wa)), cid + 1, Tail(wa))

\* lines 1120-1139: the loop over w from index i (1-based here).  w[i + 1]
\* past the end, and as_i64 of an array, abort.  In the second arm c_first,
\* c_last and c_width are all read from w[i], and first..last excludes last:
\* the loop `for id in c_first..c_last` has no turn.
RECURSIVE ParseW(_, _, _)
ParseW(w, i, map) ==
    IF i > Len(w) THEN [ panic |-> FALSE, widths |-> map ]
    ELSE IF i + 1 > Len(w) THEN [ panic |-> TRUE, widths |-> map ]
    ELSE IF w[i + 1].kind = "Array"
    THEN IF w[i].kind # "Integer" THEN [ panic |-> TRUE, widths |-> map ]
         ELSE ParseW(w, i + 2, InsertAll(map, w[i].v, w[i + 1].a))
    ELSE IF w[i].kind # "Integer" THEN [ panic |-> TRUE, widths |-> map ]
         ELSE ParseW(w, i + 3, map)

DEFAULT_DW == 1000

\* lines 1114-1140
PdfCIDFont_new ==
    /\ cidwidths.state = "none"
    /\ ciddict # NoCidDict
    /\ LET parsed == IF ciddict.w.some THEN ParseW(ciddict.w.v, 1, << >>)
                     ELSE [ panic |-> FALSE, widths |-> << >> ]
       IN  cidwidths' = IF parsed.panic
                        THEN [ state |-> "panicked", widths |-> << >>, default_width |-> 0 ]
                        ELSE [ state |-> "built", widths |-> parsed.widths,
                               default_width |-> IF ciddict.dw.some THEN ciddict.dw.v
                                                 ELSE DEFAULT_DW ]
    /\ UNCHANGED ciddict
    /\ UNCHANGED restOfWidths

\* lines 1157-1166
PdfCIDFont_get_width(f, id) ==
    IF id \in DOMAIN f.widths THEN f.widths[id] ELSE f.default_width

(***************************************************************************)
(* utils.rs get_inherited: the walk along the Parent entries.              *)
(***************************************************************************)
\* what a dictionary holds under the key: nothing, an object that is not of
\* the type asked for, or a value of that type
Absent == "absent"
WrongType == "wrong type"
Values == { "a", "b" }

\* line 373: no Parent entry, or one that is not a reference to a dictionary
NoParent == 0

NoTree == << >>
NotWalking == [ state |-> "idle", dict |-> 0, visited |-> << >>, result |-> "unset" ]

\* lines 363-379, one call: the value found, none without a resolvable
\* Parent, and else the call on the parent; at MaxDepth calls the stack is
\* used up
get_inherited ==
    /\ walk.state = "walking"
    /\ LET dict == pagetree[walk.dict]
       IN  IF dict.entry \in Values
           THEN walk' = [ walk EXCEPT !.state = "returned", !.result = dict.entry ]
           ELSE IF dict.parent = NoParent
           THEN walk' = [ walk EXCEPT !.state = "returned", !.result = "none" ]
           ELSE IF Len(walk.visited) = MaxDepth
           THEN walk' = [ walk EXCEPT !.state = "overflow" ]
           ELSE walk' = [ walk EXCEPT !.dict = dict.parent,
                                      !.visited = Append(@, dict.parent) ]
    /\ UNCHANGED pagetree
    /\ UNCHANGED restOfTree

\* no walk in play
TreeIdle ==
    /\ pagetree = NoTree
    /\ walk = NotWalking

(***************************************************************************)
(* process_stream on stored content: a page and its form XObjects, each a  *)
(* fixed sequence of operators, Do naming the XObject it invokes.          *)
(***************************************************************************)
XObjectNames == { "X", "Y" }

\* an operator other than Do
OtherOperator == "w"

PageStream == "page"

NoStreams == << >>
NoCalls == [ state |-> "idle", stack |-> << >> ]

Running == calls.stack[Len(calls.stack)]

AtEnd == Running.at > Len(streams[Running.stream])

Operator == streams[Running.stream][Running.at]

Advance == [ calls.stack EXCEPT ![Len(calls.stack)].at = @ + 1 ]

\* line 173: the loop takes an operator that is not Do
stream_operator ==
    /\ calls.state = "running"
    /\ ~AtEnd
    /\ Operator = OtherOperator
    /\ calls' = [ calls EXCEPT !.stack = Advance ]
    /\ UNCHANGED streams
    /\ UNCHANGED restOfCalls

\* lines 363-374: Do calls process_stream on the stream of the XObject
\* named, whatever calls are running; at MaxDepth calls the stack is used up
stream_Do ==
    /\ calls.state = "running"
    /\ ~AtEnd
    /\ Operator \in XObjectNames
    /\ IF Len(calls.stack) = MaxDepth
       THEN calls' = [ calls EXCEPT !.state = "overflow" ]
       ELSE calls' = [ calls EXCEPT
                        !.stack = Append(Advance, [ stream |-> Operator, at |-> 1 ]) ]
    /\ UNCHANGED streams
    /\ UNCHANGED restOfCalls

\* line 380: Ok(()) after the last operator, to the caller
stream_ends ==
    /\ calls.state = "running"
    /\ AtEnd
    /\ calls' = [ state |-> IF Len(calls.stack) = 1 THEN "returned" ELSE "running",
                  stack |-> SubSeq(calls.stack, 1, Len(calls.stack) - 1) ]
    /\ UNCHANGED streams
    /\ UNCHANGED restOfCalls

\* no stored content in play
CallsIdle ==
    /\ streams = NoStreams
    /\ calls = NoCalls

\* no widths in play
WidthsIdle ==
    /\ ciddict = NoCidDict
    /\ cidwidths = NotBuilt
    /\ TreeIdle
    /\ CallsIdle

\* no CID font in play
CidIdle ==
    /\ encoding = NoEncoding
    /\ iter = << >>
    /\ char_read = NotRead
    /\ WidthsIdle

\* no font in play
FontsIdle ==
    /\ fontdict = NoFontDict
    /\ font = NoFont
    /\ decoded = NotDecoded
    /\ font_pc = "idle"
    /\ CidIdle

\* the assembler not in play
AsmIdle ==
    /\ new
    /\ glyphs = << >>
    /\ lines = << >>
    /\ pc = "idle"

(***************************************************************************)
(* TextOutput::to_string_pretty, run twice on the same lines.  Each run    *)
(* builds its own HashMap, whose iteration order ord is any order of the   *)
(* cluster ids.                                                            *)
(***************************************************************************)
Runs == { 1, 2 }

ClusterIds == 0..(MaxClusters - 1)

Perms(S) == { p \in [ 1..Cardinality(S) -> S ] : \A i, j \in DOMAIN p : p[i] = p[j] => i = j }

NotRun == [ done |-> FALSE, positions |-> << >>, text |-> << >> ]

to_string_pretty(run) ==
    /\ ~pretty[run].done
    /\ \E ord \in Perms(ClusterIds) :
          LET right_aligned_positions == detect_right_aligned_columns(output_lines, ord)
          IN  pretty' = [ pretty EXCEPT ![run] =
                            [ done      |-> TRUE,
                              positions |-> right_aligned_positions,
                              text      |-> PrettyText(output_lines, right_aligned_positions) ] ]
    /\ UNCHANGED output_lines
    /\ UNCHANGED restOfCols

\* nothing written
NotWritten == [ done |-> FALSE, text |-> << >> ]

\* no output in play
ColsIdle ==
    /\ output_lines = << >>
    /\ pretty = [ run \in Runs |-> NotRun ]
    /\ plain = NotWritten

(***************************************************************************)
(* impl fmt::Display for TextOutput (to_string_plain).  The formatter is   *)
(* the sequence of the characters written so far.                          *)
(***************************************************************************)
\* a Display that writes the separator before every span
WriteSpan_leading_space(f, i, span) == (f \o << " " >>) \o span.text

\* lines 215-218: the span at index i (from 0) of its line
WriteSpan(f, i, span) == (IF i > 0 THEN f \o << " " >> ELSE f) \o span.text

\* lines 214-220: the spans of one line from index i on, then writeln!
RECURSIVE WriteLine(_, _, _)
WriteLine(f, line, i) ==
    IF i >= Len(line) THEN f \o << "\n" >>
    ELSE WriteLine(WriteSpan(f, i, line[i + 1]), line, i + 1)

\* lines 213-222
RECURSIVE fmt(_, _)
fmt(f, ls) ==
    IF ls = << >> THEN f
    ELSE fmt(WriteLine(f, ls[1], 0), SubSeq(ls, 2, Len(ls)))

to_string_plain ==
    /\ ~plain.done
    /\ plain' = [ done |-> TRUE, text |-> fmt(<< >>, output_lines) ]
    /\ UNCHANGED restOfPlain


(***************************************************************************)
(* The content-stream interpreter (src/src/processor.rs) under the page    *)
(* loop of extract_structured_from_doc and extract_from_document           *)
(* (src/src/extract.rs).  The operators of a stream are met one at a time: *)
(* an action is the arm of the match for one operator, and a TJ array is   *)
(* walked one element at a time.  frames is the call stack of              *)
(* process_stream: the page's stream at the bottom, one frame for each Do  *)
(* that is running.  Strings hold one character code.                      *)
(***************************************************************************)
\* the font of the page resources: get_width and decode_char by code
FontCodes == { 32, 65, 90 }

get_width(c) == IF c = 65 THEN 500 ELSE IF c = 32 THEN 250 ELSE 0

FontText(c) == IF c = 65 THEN << "A" >> ELSE IF c = 32 THEN << " " >> ELSE << "Z" >>

\* lines 154-168: the graphics state at the start of a stream.
\* horizontal_scaling is the operand of Tz over 100.
InitialGraphicsState ==
    [ ctm |-> Identity,
      smask |-> "None",
      line_width |-> 1,
      ts  |-> [ font |-> FALSE,
                font_size |-> NaN,
                character_spacing |-> 0,
                word_spacing |-> 0,
                horizontal_scaling |-> 1,
                leading |-> 0,
                rise |-> 0,
                tm |-> Identity ] ]

\* extract.rs:22: the Resources the page's stream is interpreted with
PageResources == "page"

\* lines 153-172: the locals of one call of process_stream, here the call
\* for a page; in_array and elems are the position in the TJ array being
\* walked, and at_q is the history of the states that were current at each
\* q still open
InitialFrame ==
    [ gs |-> InitialGraphicsState, gs_stack |-> << >>, tlm |-> Identity,
      font_table |-> { }, resources |-> PageResources,
      in_array |-> FALSE, elems |-> << >>, at_q |-> << >> ]

Top == frames[Len(frames)]

SetTop(f) == [ frames EXCEPT ![Len(frames)] = f ]

\* an operator that does not reach the output
OnlyFrames ==
    /\ UNCHANGED << asmVars, lines, pc >>
    /\ UNCHANGED restOfAsm
    /\ UNCHANGED << password, npages, page_no, log, result, shows, made >>

\* the guard of every arm: an operator of the running stream, outside arrays
AtOperator ==
    /\ xpc = "ops"
    /\ ~Top.in_array
    /\ nops < MaxOps

Op_BT ==
    /\ AtOperator
    /\ frames' = SetTop([ Top EXCEPT !.tlm = Identity, !.gs.ts.tm = Identity ])
    /\ nops' = nops + 1
    /\ xpc' = xpc
    /\ OnlyFrames

Op_cm(m) ==
    /\ AtOperator
    /\ frames' = SetTop([ Top EXCEPT !.gs.ctm = Then(m, Top.gs.ctm) ])
    /\ nops' = nops + 1
    /\ xpc' = xpc
    /\ OnlyFrames

Op_Tc(v) ==
    /\ AtOperator
    /\ frames' = SetTop([ Top EXCEPT !.gs.ts.character_spacing = v ])
    /\ nops' = nops + 1
    /\ xpc' = xpc
    /\ OnlyFrames

Op_Tz(v) ==
    /\ AtOperator
    /\ frames' = SetTop([ Top EXCEPT !.gs.ts.horizontal_scaling = v \div 100 ])
    /\ nops' = nops + 1
    /\ xpc' = xpc
    /\ OnlyFrames

\* the one font resource name the streams select
FontName == "F1"

\* lines 252-268: font_table.entry(name).or_insert_with(|| make_font(..)),
\* on the table of this call of process_stream
Op_Tf(size) ==
    /\ AtOperator
    /\ frames' = SetTop([ Top EXCEPT !.gs.ts.font = TRUE, !.gs.ts.font_size = size,
                                     !.font_table = @ \cup { FontName } ])
    /\ made' = IF FontName \in Top.font_table THEN made ELSE made + 1
    /\ nops' = nops + 1
    /\ xpc' = xpc
    /\ UNCHANGED << asmVars, lines, pc >>
    /\ UNCHANGED restOfAsm
    /\ UNCHANGED << password, npages, page_no, log, result, shows >>

\* lines 350-352
Op_w(v) ==
    /\ AtOperator
    /\ frames' = SetTop([ Top EXCEPT !.gs.line_width = v ])
    /\ nops' = nops + 1
    /\ xpc' = xpc
    /\ OnlyFrames

\* lines 338-343 and apply_state, lines 90-108: an ExtGState whose SMask is
\* the name None or a dictionary
Op_gs(smask) ==
    /\ AtOperator
    /\ frames' = SetTop([ Top EXCEPT !.gs.smask = smask ])
    /\ nops' = nops + 1
    /\ xpc' = xpc
    /\ OnlyFrames

\* a q that saves the state a stream starts with
Op_q_saves_initial ==
    /\ AtOperator
    /\ frames' = SetTop([ Top EXCEPT !.gs_stack = Append(Top.gs_stack, InitialGraphicsState),
                                     !.at_q = Append(Top.at_q, Top.gs) ])
    /\ nops' = nops + 1
    /\ xpc' = xpc
    /\ UNCHANGED log
    /\ UNCHANGED << asmVars, lines, pc >>
    /\ UNCHANGED restOfAsm
    /\ UNCHANGED << password, npages, page_no, result, shows, made >>

\* lines 327-329
Op_q ==
    /\ AtOperator
    /\ frames' = SetTop([ Top EXCEPT !.gs_stack = Append(Top.gs_stack, Top.gs),
                                     !.at_q = Append(Top.at_q, Top.gs) ])
    /\ nops' = nops + 1
    /\ xpc' = xpc
    /\ UNCHANGED log
    /\ UNCHANGED << asmVars, lines, pc >>
    /\ UNCHANGED restOfAsm
    /\ UNCHANGED << password, npages, page_no, result, shows, made >>

\* line 335: the warning of a Q with nothing saved, at the operator index nops
Underflow == [ kind |-> "pop", page |-> page_no, depth |-> Len(frames), at |-> nops ]

\* a Q that takes the underflow for an error
Op_Q_fails ==
    /\ AtOperator
    /\ IF Top.gs_stack # << >>
       THEN /\ frames' = SetTop([ Top EXCEPT
                            !.gs = Top.gs_stack[Len(Top.gs_stack)],
                            !.gs_stack = SubSeq(Top.gs_stack, 1, Len(Top.gs_stack) - 1),
                            !.at_q = SubSeq(Top.at_q, 1, Len(Top.at_q) - 1) ])
            /\ UNCHANGED << log, xpc, result >>
       ELSE /\ frames' = frames
            /\ log' = log \cup { Underflow }
            /\ xpc' = "done"
            /\ result' = "err"
    /\ nops' = nops + 1
    /\ UNCHANGED << asmVars, lines, pc >>
    /\ UNCHANGED restOfAsm
    /\ UNCHANGED << password, npages, page_no, shows, made >>

Op_Q ==
    /\ AtOperator
    /\ IF Top.gs_stack # << >>
       THEN /\ frames' = SetTop([ Top EXCEPT
                            !.gs = Top.gs_stack[Len(Top.gs_stack)],
                            !.gs_stack = SubSeq(Top.gs_stack, 1, Len(Top.gs_stack) - 1),
                            !.at_q = SubSeq(Top.at_q, 1, Len(Top.at_q) - 1) ])
            /\ log' = log
       ELSE /\ frames' = frames
            /\ log' = log \cup { Underflow }
    /\ nops' = nops + 1
    /\ UNCHANGED << xpc, result >>
    /\ UNCHANGED << asmVars, lines, pc >>
    /\ UNCHANGED restOfAsm
    /\ UNCHANGED << password, npages, page_no, shows, made >>

\* lines 143-152 at the head of a call: Content::decode fails
DecodeFailure(depth) == [ kind |-> "decode", page |-> page_no, depth |-> depth, at |-> nops ]

\* an XObject without a Resources entry that is a dictionary
NoResources == [ some |-> FALSE, v |-> "" ]

\* lines 368-370: the XObject's Resources, or else the caller's
ResourcesFor(xf, caller) == IF xf.resources.some THEN xf.resources.v ELSE caller

\* a Do whose form goes on in the graphics state of the caller
Op_Do_inherits(xf, decodes) ==
    /\ AtOperator
    /\ IF decodes
       THEN /\ frames' = Append(frames, [ InitialFrame EXCEPT
                                !.gs = Top.gs,
                                !.resources = ResourcesFor(xf, Top.resources) ])
            /\ log' = log
       ELSE /\ frames' = frames
            /\ log' = log \cup { DecodeFailure(Len(frames) + 1) }
    /\ nops' = nops + 1
    /\ xpc' = xpc
    /\ UNCHANGED << asmVars, lines, pc >>
    /\ UNCHANGED restOfAsm
    /\ UNCHANGED << password, npages, page_no, result, shows, made >>

\* lines 363-374, Do of the form XObject xf: a recursive call of
\* process_stream on the form's content, with the same output and page_num
Op_Do_form(xf, decodes) ==
    /\ AtOperator
    /\ IF decodes
       THEN /\ frames' = Append(frames, [ InitialFrame EXCEPT
                                !.resources = ResourcesFor(xf, Top.resources) ])
            /\ log' = log
       ELSE /\ frames' = frames
            /\ log' = log \cup { DecodeFailure(Len(frames) + 1) }
    /\ nops' = nops + 1
    /\ xpc' = xpc
    /\ UNCHANGED << asmVars, lines, pc >>
    /\ UNCHANGED restOfAsm
    /\ UNCHANGED << password, npages, page_no, result, shows, made >>

\* a Do that begins a page of its own on the output
Op_Do_begins_page(decodes) ==
    /\ AtOperator
    /\ IF decodes
       THEN /\ frames' = Append(frames, InitialFrame)
            /\ log' = log
       ELSE /\ frames' = frames
            /\ log' = log \cup { DecodeFailure(Len(frames) + 1) }
    /\ nops' = nops + 1
    /\ xpc' = xpc
    /\ current_page' = 0
    /\ UNCHANGED << flip_ctm, buf_start_x, buf_start_y, buf_end_x, last_x, last_y,
                    buf_font_size, buf_ctm, buf, first_char, spans, glyphs, lines, pc >>
    /\ UNCHANGED restOfAsm
    /\ UNCHANGED << password, npages, page_no, result, shows, made >>

\* Do of a form XObject without Resources of its own
Op_Do(decodes) == Op_Do_form([ resources |-> NoResources ], decodes)

\* show_text on a string of the one code c, in the frame f: the glyph goes
\* to the output and Tm advances; the frame after the call
show_text(f, c) ==
    LET ts  == f.gs.ts
        tsm == << ts.horizontal_scaling, 0, 0, 1, 0, ts.rise >>
        trm == Then(tsm, Then(ts.tm, f.gs.ctm))
        w0  == get_width(c)
        spacing == IF c = 32 THEN FAdd(ts.character_spacing, ts.word_spacing)
                   ELSE ts.character_spacing
        tx  == FMul(ts.horizontal_scaling,
                    FAdd(FMul(w0, ts.font_size) \div WidthUnits, spacing))
    IN  /\ output_character(trm, w0, ts.font_size, FontText(c))
        /\ shows' = Append(shows, [ page |-> page_no, depth |-> Len(frames) ])
        /\ made' = made
        /\ frames' = SetTop([ f EXCEPT !.gs.ts.tm = Then(Translation(tx, 0), ts.tm) ])

\* a show_text that skips the string when no font is selected
ShowTextSkips ==
    /\ ~Top.gs.ts.font
    /\ xpc' = xpc
    /\ UNCHANGED << frames, shows, made >>
    /\ UNCHANGED << asmVars, lines, pc >>
    /\ UNCHANGED restOfAsm

\* line 44: font.as_ref().unwrap() with no font selected
ShowTextPanics ==
    /\ ~Top.gs.ts.font
    /\ xpc' = "panicked"
    /\ UNCHANGED << frames, shows, made >>
    /\ UNCHANGED << asmVars, lines, pc >>
    /\ UNCHANGED restOfAsm

\* lines 50-75 for any font and text state: the call of output_character
\* with the trm, the width and the decoded text they give
show_glyph(trm, width, font_size, char) ==
    /\ AtOperator
    /\ output_character(trm, width, font_size, char)
    /\ shows' = Append(shows, [ page |-> page_no, depth |-> Len(frames) ])
    /\ nops' = nops + 1
    /\ UNCHANGED << xpc, password, npages, page_no, frames, log, result, made >>

Op_Tj(c) ==
    /\ AtOperator
    /\ \/ ShowTextPanics
       \/ /\ Top.gs.ts.font
          /\ show_text(Top, c)
          /\ xpc' = xpc
    /\ nops' = nops + 1
    /\ UNCHANGED << password, npages, page_no, log, result >>

\* TJ with an array operand: the walk of the array starts (the elements
\* of the array count in nops)
Op_TJ ==
    /\ AtOperator
    /\ frames' = SetTop([ Top EXCEPT !.in_array = TRUE, !.elems = << >> ])
    /\ nops' = nops
    /\ xpc' = xpc
    /\ OnlyFrames

\* the guard of an element of the array
AtElement ==
    /\ xpc = "ops"
    /\ Top.in_array
    /\ nops < MaxOps

String(c) == [ kind |-> "String", v |-> c ]

Integer(i) == [ kind |-> "Integer", v |-> i ]

\* lines 201-203
TJ_String(c) ==
    /\ AtElement
    /\ \/ ShowTextPanics
       \/ /\ Top.gs.ts.font
          /\ show_text([ Top EXCEPT !.elems = Append(Top.elems, String(c)) ], c)
          /\ xpc' = xpc
    /\ nops' = nops + 1
    /\ UNCHANGED << password, npages, page_no, log, result >>

\* an adjustment that forgets the horizontal scaling
Adjustment_unscaled(ts, i) == FMul(-i, ts.font_size) \div WidthUnits

\* lines 205-210: tx of the adjustment i (exact for the inputs of the model)
Adjustment(ts, i) ==
    FMul(ts.horizontal_scaling,
         IF IsNaN(ts.font_size) THEN NaN ELSE ((-i) * ts.font_size) \div WidthUnits)

\* lines 204-213 (and 214-223 for a real)
TJ_Integer(i) ==
    /\ AtElement
    /\ frames' = SetTop([ Top EXCEPT
                    !.gs.ts.tm = Then(Translation(Adjustment(Top.gs.ts, i), 0), Top.gs.ts.tm),
                    !.elems = Append(Top.elems, Integer(i)) ])
    /\ nops' = nops + 1
    /\ xpc' = xpc
    /\ OnlyFrames

\* the array is exhausted
TJ_End ==
    /\ xpc = "ops"
    /\ Top.in_array
    /\ frames' = SetTop([ Top EXCEPT !.in_array = FALSE, !.elems = << >> ])
    /\ UNCHANGED << xpc, nops >>
    /\ OnlyFrames

\* line 380: the operations are exhausted and the call returns Ok(())
Return ==
    /\ xpc = "ops"
    /\ ~Top.in_array
    /\ frames' = SubSeq(frames, 1, Len(frames) - 1)
    /\ xpc' = IF Len(frames) = 1 THEN "end" ELSE "ops"
    /\ UNCHANGED nops
    /\ OnlyFrames

(***************************************************************************)
(* extract_from_document and the page loop of extract_structured_from_doc. *)
(***************************************************************************)
\* Option<String>
NoPassword == [ some |-> FALSE, v |-> "" ]

\* lopdf's Document::decrypt: Ok for the password of the document
DecryptOk(doc, pw) == pw = doc.password

\* a configured password that is never tried
PasswordUsed_always_empty == ""

\* lines 141-145: the password handed to decrypt
PasswordUsed == IF password.some THEN password.v ELSE ""

\* extract_from_document up to the call of extract_structured_from_doc, on
\* the document doc: whether it is encrypted, and with which password
extract_from_document(doc) ==
    /\ xpc = "start"
    /\ IF doc.encrypted /\ ~DecryptOk(doc, PasswordUsed)
       THEN /\ xpc' = "done"
            /\ result' = "err"
            /\ page_no' = page_no
       ELSE /\ xpc' = IF npages = 0 THEN "lines" ELSE "begin"
            /\ result' = result
            /\ page_no' = IF npages = 0 THEN page_no ELSE 1
    /\ UNCHANGED << password, npages, frames, nops, log, shows, made >>
    /\ UNCHANGED << asmVars, lines, pc >>
    /\ UNCHANGED restOfAsm

\* line 33
BeginPage(height) ==
    /\ xpc = "begin"
    /\ begin_page(page_no, height)
    /\ xpc' = "stream"
    /\ UNCHANGED << password, npages, page_no, frames, nops, log,
                    result, shows >>
    /\ made' = 0

\* a page whose undecodable stream ends the extraction
process_stream_fails(decodes) ==
    /\ xpc = "stream"
    /\ IF decodes
       THEN /\ frames' = << InitialFrame >>
            /\ xpc' = "ops"
            /\ UNCHANGED << log, result >>
       ELSE /\ frames' = frames
            /\ xpc' = "done"
            /\ result' = "err"
            /\ log' = log \cup { DecodeFailure(1) }
    /\ UNCHANGED << password, npages, page_no, nops, shows, made >>
    /\ UNCHANGED << asmVars, lines, pc >>
    /\ UNCHANGED restOfAsm

\* lines 34-41 and 143-172: the call for the page's content
process_stream(decodes) ==
    /\ xpc = "stream"
    /\ IF decodes
       THEN /\ frames' = << InitialFrame >>
            /\ xpc' = "ops"
            /\ log' = log
       ELSE /\ frames' = frames
            /\ xpc' = "end"
            /\ log' = log \cup { DecodeFailure(1) }
    /\ UNCHANGED << password, npages, page_no, nops, result, shows, made >>
    /\ UNCHANGED << asmVars, lines, pc >>
    /\ UNCHANGED restOfAsm

\* line 42, and the loop moves to the next page
EndPage ==
    /\ xpc = "end"
    /\ end_page
    /\ IF page_no < npages
       THEN page_no' = page_no + 1 /\ xpc' = "begin"
       ELSE page_no' = page_no /\ xpc' = "lines"
    /\ UNCHANGED << password, npages, frames, nops, log, result, shows, made >>

\* line 45 and extract.rs:148-149: Ok(TextOutput::from(lines))
ReturnLines ==
    /\ xpc = "lines"
    /\ into_lines
    /\ xpc' = "done"
    /\ result' = "ok"
    /\ UNCHANGED << password, npages, page_no, frames, nops, log, shows, made >>

\* no extraction in play
ProcIdle ==
    /\ xpc = "idle"
    /\ password = NoPassword
    /\ npages = 0
    /\ page_no = 0
    /\ frames = << >>
    /\ nops = 0
    /\ log = { }
    /\ result = "none"
    /\ shows = << >>
    /\ made = 0

(***************************************************************************)
(* The assembler driven by arbitrary calls, then into_lines.               *)
(***************************************************************************)
Xs == { 0, 7, 40 }

Ys == { 100 }

\* text rendering matrices: upright at each position, and one under a CTM
\* with a negative vertical scale
Trms == { << 1, 0, 0, 1, x, y >> : x \in Xs, y \in Ys } \cup { << 1, 0, 0, -1, 0, 100 >> }

Widths == { 0, 500 }

FontSizes == { 10 }

\* decoded glyph texts: the empty string, a letter, a tab
Texts == { << >>, << "a" >>, << "\t" >> }

Heights == { 100 }

Init ==
    /\ new
    /\ glyphs = << >>
    /\ lines = << >>
    /\ pc = "pages"
    /\ FontsIdle
    /\ ColsIdle
    /\ ProcIdle

Next ==
    \/ \E page_num \in 1..MaxPages, height \in Heights :
          begin_page(page_num, height) /\ UNCHANGED procVars
    \/ \E trm \in Trms, width \in Widths, font_size \in FontSizes, char \in Texts :
          output_character(trm, width, font_size, char) /\ UNCHANGED procVars
    \/ end_page /\ UNCHANGED procVars
    \/ into_lines /\ UNCHANGED procVars

Spec == Init /\ [][Next]_vars

(***************************************************************************)
(* The assembler on one page, with a glyph position 8 points off the line. *)
(***************************************************************************)
GlyphTrms == Trms \cup { << 1, 0, 0, 1, 7, 108 >> }

NextGlyphs ==
    \/ \E height \in Heights : begin_page(1, height) /\ UNCHANGED procVars
    \/ \E trm \in GlyphTrms, width \in Widths, font_size \in FontSizes, char \in Texts :
          output_character(trm, width, font_size, char) /\ UNCHANGED procVars
    \/ end_page /\ UNCHANGED procVars

SpecGlyphs == Init /\ [][NextGlyphs]_vars

(***************************************************************************)
(* An extraction: a document of up to MaxPages pages, encrypted or not,    *)
(* whose streams hold up to MaxOps operators and array elements in all.    *)
(***************************************************************************)
Documents ==
    { [ encrypted |-> FALSE, password |-> "" ],
      [ encrypted |-> TRUE, password |-> "" ],
      [ encrypted |-> TRUE, password |-> "s" ] }

Passwords == { NoPassword, [ some |-> TRUE, v |-> "s" ] }

\* operands
Matrices == { << 1, 0, 0, 1, 30, 0 >> }

Spacings == { 10 }

Scalings == { 200 }

Sizes == { 100 }

Kerns == { -120, 1210 }

InitExtract ==
    /\ new
    /\ glyphs = << >>
    /\ lines = << >>
    /\ pc = "pages"
    /\ FontsIdle
    /\ ColsIdle
    /\ xpc = "start"
    /\ password \in Passwords
    /\ npages \in 0..MaxPages
    /\ page_no = 0
    /\ frames = << >>
    /\ nops = 0
    /\ log = { }
    /\ result = "none"
    /\ shows = << >>
    /\ made = 0

NextExtract ==
    \/ \E doc \in Documents : extract_from_document(doc)
    \/ \E height \in Heights : BeginPage(height)
    \/ \E decodes \in BOOLEAN : process_stream(decodes)
    \/ Op_BT
    \/ \E m \in Matrices : Op_cm(m)
    \/ \E v \in Spacings : Op_Tc(v)
    \/ \E v \in Scalings : Op_Tz(v)
    \/ \E size \in Sizes : Op_Tf(size)
    \/ Op_q
    \/ Op_Q
    \/ \E decodes \in BOOLEAN : Op_Do(decodes)
    \/ \E c \in FontCodes : Op_Tj(c)
    \/ Op_TJ
    \/ \E c \in FontCodes : TJ_String(c)
    \/ \E i \in Kerns : TJ_Integer(i)
    \/ TJ_End
    \/ Return
    \/ EndPage
    \/ ReturnLines

SpecExtract == InitExtract /\ [][NextExtract]_vars

(***************************************************************************)
(* The text operators on a one-page document that is not encrypted, with   *)
(* adjustments on both sides of -n/1000 = -1.2, 0.15 and 1.2.              *)
(***************************************************************************)
Adjustments == { -1210, -1200, -160, -150, -120, 1200, 1210 }

InitText ==
    /\ new
    /\ glyphs = << >>
    /\ lines = << >>
    /\ pc = "pages"
    /\ FontsIdle
    /\ ColsIdle
    /\ xpc = "start"
    /\ password = NoPassword
    /\ npages = 1
    /\ page_no = 0
    /\ frames = << >>
    /\ nops = 0
    /\ log = { }
    /\ result = "none"
    /\ shows = << >>
    /\ made = 0

NextText ==
    \/ extract_from_document([ encrypted |-> FALSE, password |-> "" ])
    \/ \E height \in Heights : BeginPage(height)
    \/ process_stream(TRUE)
    \/ \E m \in Matrices : Op_cm(m)
    \/ \E v \in Spacings : Op_Tc(v)
    \/ \E v \in Scalings : Op_Tz(v)
    \/ \E size \in Sizes : Op_Tf(size)
    \/ Op_TJ
    \/ \E c \in FontCodes : TJ_String(c)
    \/ \E i \in Adjustments : TJ_Integer(i)
    \/ TJ_End
    \/ Return
    \/ EndPage
    \/ ReturnLines

SpecText == InitText /\ [][NextText]_vars

(***************************************************************************)
(* Do of form XObjects with and without Resources of their own, from a     *)
(* caller that has changed its graphics state.                             *)
(***************************************************************************)
Forms == { [ resources |-> NoResources ], [ resources |-> [ some |-> TRUE, v |-> "form" ] ] }

NextForms ==
    \/ extract_from_document([ encrypted |-> FALSE, password |-> "" ])
    \/ \E height \in Heights : BeginPage(height)
    \/ process_stream(TRUE)
    \/ Op_BT
    \/ \E m \in Matrices : Op_cm(m)
    \/ \E size \in Sizes : Op_Tf(size)
    \/ Op_q
    \/ Op_Q
    \/ \E xf \in Forms, decodes \in BOOLEAN : Op_Do_form(xf, decodes)
    \/ \E c \in FontCodes : Op_Tj(c)
    \/ Return
    \/ EndPage
    \/ ReturnLines

SpecForms == InitText /\ [][NextForms]_vars

(***************************************************************************)
(* The page loop with glyphs of any decoded text, tabs and empty strings   *)
(* among them, at any of the positions of Trms.                            *)
(***************************************************************************)
NextPages ==
    \/ extract_from_document([ encrypted |-> FALSE, password |-> "" ])
    \/ \E height \in Heights : BeginPage(height)
    \/ process_stream(TRUE)
    \/ \E trm \in Trms, width \in Widths, font_size \in FontSizes, char \in Texts :
          show_glyph(trm, width, font_size, char)
    \/ Return
    \/ EndPage
    \/ ReturnLines

SpecPages == InitExtract /\ [][NextPages]_vars

(***************************************************************************)
(* The operators that change the graphics state, with q and Q and the     *)
(* operators that show text, on a one-page document.                       *)
(***************************************************************************)
LineWidths == { 2 }

SMasks == { "None", "Dictionary" }

NextState ==
    \/ extract_from_document([ encrypted |-> FALSE, password |-> "" ])
    \/ \E height \in Heights : BeginPage(height)
    \/ process_stream(TRUE)
    \/ Op_BT
    \/ \E m \in Matrices : Op_cm(m)
    \/ \E v \in Spacings : Op_Tc(v)
    \/ \E v \in Scalings : Op_Tz(v)
    \/ \E size \in Sizes : Op_Tf(size)
    \/ \E v \in LineWidths : Op_w(v)
    \/ \E smask \in SMasks : Op_gs(smask)
    \/ Op_q
    \/ Op_Q
    \/ Op_Do(TRUE)
    \/ \E c \in FontCodes : Op_Tj(c)
    \/ Op_TJ
    \/ \E c \in FontCodes : TJ_String(c)
    \/ TJ_End
    \/ Return
    \/ EndPage
    \/ ReturnLines

SpecState == InitText /\ [][NextState]_vars

(***************************************************************************)
(* into_lines on spans drawn from a bounded set of the spans flush_string  *)
(* builds: t = b + transformed font size, l <= r, non-empty text.          *)
(***************************************************************************)
SpanLefts == { 0, 50 }

SpanBaselines == { 0, 6, 40 }

SpanSizes == { 10, 20 }

SpanSet ==
    { [ text |-> << "a" >>,
        bbox |-> [ t |-> b + fs, r |-> l + 10, b |-> b, l |-> l ],
        font_size |-> fs,
        page_num |-> p ] :
      p \in 1..MaxPages, l \in SpanLefts, b \in SpanBaselines, fs \in SpanSizes }

SeqsUpTo(S, n) == UNION { [ 1..k -> S ] : k \in 0..n }

InitLines ==
    /\ new_buffer
    /\ spans \in SeqsUpTo(SpanSet, MaxSpans)
    /\ glyphs = << >>
    /\ lines = << >>
    /\ pc = "pages"
    /\ FontsIdle
    /\ ColsIdle
    /\ ProcIdle

NextLines == into_lines /\ UNCHANGED procVars

SpecLines == InitLines /\ [][NextLines]_vars


(***************************************************************************)
(* Fonts: a font dictionary drawn from a bounded set, make_font, then      *)
(* decode_char on any code.                                                *)
(***************************************************************************)
PartialMaps(D, V) == UNION { [ S -> V ] : S \in SUBSET D }

\* the byte strings of ToUnicode entries: empty, U+0000, "a", a lone high
\* surrogate, "a" U+0000, a surrogate pair, an unpaired low surrogate, and
\* an odd number of bytes
CMapValues ==
    { << >>, << 0, 0 >>, << 0, 97 >>, << 216, 61 >>, << 0, 97, 0, 0 >>,
      << 216, 61, 222, 0 >>, << 222, 0, 0, 97 >>, << 97 >> }

ToUnicodes ==
    { [ kind |-> "none", name |-> "", cmap |-> << >> ],
      [ kind |-> "name", name |-> "Identity-H", cmap |-> << >> ] }
    \cup { [ kind |-> "stream", name |-> "", cmap |-> m ] : m \in PartialMaps(Codes, CMapValues) }

\* an encoding table: code 1 is "A", every other code unassigned
EncodingTable == [ c \in Codes |-> IF c = 1 THEN 65 ELSE 0 ]

Encodings == { [ some |-> FALSE, table |-> << >> ], [ some |-> TRUE, table |-> EncodingTable ] }

NoMap == [ some |-> FALSE, map |-> << >> ]

\* CID -> string maps of the embedded font ("-") and of the width match ("0")
FallbackMaps(ch) == { NoMap } \cup { [ some |-> TRUE, map |-> m ] : m \in PartialMaps(Codes, { << ch >> }) }

FontDicts ==
    { [ subtype |-> st, to_unicode |-> tu, encoding |-> e,
        fallback_unicode |-> NoMap, width_fallback |-> NoMap ] :
      st \in { "Type1", "Type3" }, tu \in ToUnicodes, e \in Encodings }
    \cup
    { [ subtype |-> "Type0", to_unicode |-> tu, encoding |-> [ some |-> FALSE, table |-> << >> ],
        fallback_unicode |-> fb, width_fallback |-> wf ] :
      tu \in ToUnicodes, fb \in FallbackMaps(45), wf \in FallbackMaps(48) }

InitFonts ==
    /\ AsmIdle
    /\ fontdict \in FontDicts
    /\ font = NoFont
    /\ decoded = NotDecoded
    /\ font_pc = "start"
    /\ CidIdle
    /\ ColsIdle
    /\ ProcIdle

NextFonts ==
    \/ make_font
    \/ \E char \in Codes : decode_char(char)

SpecFonts == InitFonts /\ [][NextFonts]_vars

(***************************************************************************)
(* next_char on strings of up to MaxBytes bytes under three encodings: one *)
(* byte codes mapped to themselves; one and two byte codes with CID ranges *)
(* that start above 0; one three byte code.                                *)
(***************************************************************************)
Bytes == { 0, 1, 2 }

ByteMappings ==
    { [ codespace |-> << CodeRange(0, 2, 1) >>,
        cid       |-> << CIDRange(0, 65535, 0) >> ],
      [ codespace |-> << CodeRange(0, 1, 1), CodeRange(512, 514, 2) >>,
        cid       |-> << CIDRange(1, 1, 10), CIDRange(512, 514, 20) >> ],
      [ codespace |-> << CodeRange(65536, 65536, 3) >>,
        cid       |-> << CIDRange(0, 70000, 0) >> ] }

InitCid ==
    /\ AsmIdle
    /\ fontdict = NoFontDict
    /\ font = NoFont
    /\ decoded = NotDecoded
    /\ font_pc = "idle"
    /\ ColsIdle
    /\ ProcIdle
    /\ encoding \in ByteMappings
    /\ iter \in SeqsUpTo(Bytes, MaxBytes)
    /\ char_read = NotRead
    /\ WidthsIdle

NextCid == next_char

(***************************************************************************)
(* PdfCIDFont::new on W arrays of up to MaxWLen elements, with and without *)
(* DW.                                                                     *)
(***************************************************************************)
WElements == { WInt(1), WInt(3), WInt(500), WArray(<< 500, 600 >>) }

CidDicts ==
    { [ w |-> w, dw |-> dw ] :
        w \in { NoW } \cup { Some(a) : a \in SeqsUpTo(WElements, MaxWLen) },
        dw \in { None, Some(700) } }

InitWidths ==
    /\ AsmIdle
    /\ fontdict = NoFontDict
    /\ font = NoFont
    /\ decoded = NotDecoded
    /\ font_pc = "idle"
    /\ ColsIdle
    /\ ProcIdle
    /\ encoding = NoEncoding
    /\ iter = << >>
    /\ char_read = NotRead
    /\ ciddict \in CidDicts \ { NoCidDict }
    /\ cidwidths = NotBuilt
    /\ TreeIdle
    /\ CallsIdle

NextWidths == PdfCIDFont_new

SpecWidths == InitWidths /\ [][NextWidths]_vars

SpecCid == InitCid /\ [][NextCid]_vars

(***************************************************************************)
(* get_inherited from every dictionary of every tree of MaxDicts           *)
(* dictionaries, the Parent entries leading anywhere.                      *)
(***************************************************************************)
DictIds == 1..MaxDicts

PageTrees ==
    [ DictIds -> [ entry : { Absent, WrongType } \cup Values,
                   parent : { NoParent } \cup DictIds ] ]

InitInherit ==
    /\ AsmIdle
    /\ fontdict = NoFontDict
    /\ font = NoFont
    /\ decoded = NotDecoded
    /\ font_pc = "idle"
    /\ ColsIdle
    /\ ProcIdle
    /\ encoding = NoEncoding
    /\ iter = << >>
    /\ char_read = NotRead
    /\ ciddict = NoCidDict
    /\ cidwidths = NotBuilt
    /\ CallsIdle
    /\ pagetree \in PageTrees
    /\ \E d \in DictIds :
           walk = [ state |-> "walking", dict |-> d, visited |-> << d >>,
                    result |-> "unset" ]

NextInherit == get_inherited

SpecInherit == InitInherit /\ [][NextInherit]_vars

(***************************************************************************)
(* process_stream on every page with two form XObjects whose streams have  *)
(* up to MaxStreamLen operators.                                           *)
(***************************************************************************)
StreamOperators == { OtherOperator } \cup XObjectNames

StoredStreams ==
    [ { PageStream } \cup XObjectNames -> SeqsUpTo(StreamOperators, MaxStreamLen) ]

InitCalls ==
    /\ AsmIdle
    /\ fontdict = NoFontDict
    /\ font = NoFont
    /\ decoded = NotDecoded
    /\ font_pc = "idle"
    /\ ColsIdle
    /\ ProcIdle
    /\ encoding = NoEncoding
    /\ iter = << >>
    /\ char_read = NotRead
    /\ ciddict = NoCidDict
    /\ cidwidths = NotBuilt
    /\ TreeIdle
    /\ streams \in StoredStreams
    /\ calls = [ state |-> "running", stack |-> << [ stream |-> PageStream, at |-> 1 ] >> ]

NextCalls ==
    \/ stream_operator
    \/ stream_Do
    \/ stream_ends

SpecCalls == InitCalls /\ [][NextCalls]_vars

\* the interpreter keeps running: a step that can be taken is taken
FairCalls == SpecCalls /\ WF_vars(NextCalls)

(***************************************************************************)
(* The pretty printer on lines drawn from a bounded set: one span a line,  *)
(* right edges at 500, 505 and 510, left edges at 470 and 480.             *)
(***************************************************************************)
ColumnSpan(l, r) ==
    [ text |-> << "1" >>,
      bbox |-> [ t |-> 10, r |-> r, b |-> 0, l |-> l ],
      font_size |-> 10,
      page_num |-> 1 ]

ColumnSpans ==
    { ColumnSpan(470, 500), ColumnSpan(480, 500), ColumnSpan(470, 510), ColumnSpan(480, 510),
      ColumnSpan(470, 505) }

InitColumns ==
    /\ AsmIdle
    /\ FontsIdle
    /\ \E ss \in SeqsUpTo(ColumnSpans, MaxColumnSpans) :
          output_lines = [ i \in 1..Len(ss) |-> << ss[i] >> ]
    /\ pretty = [ run \in Runs |-> NotRun ]
    /\ plain = NotWritten
    /\ ProcIdle

NextColumns == \E run \in Runs : to_string_pretty(run)

SpecColumns == InitColumns /\ [][NextColumns]_vars

(***************************************************************************)
(* The column aligner on lines of one span each, with right edges around   *)
(* 199, 300 and 500 and left edges that vary by 0, 5, 49 and 50 points;    *)
(* the lines are those that make at most MaxClusters clusters.             *)
(***************************************************************************)
AlignerSpans ==
    { ColumnSpan(250, 300), ColumnSpan(200, 300), ColumnSpan(201, 303), ColumnSpan(250, 304),
      ColumnSpan(250, 308), ColumnSpan(470, 500), ColumnSpan(475, 500),
      ColumnSpan(100, 199), ColumnSpan(150, 199) }

InitAligner ==
    /\ AsmIdle
    /\ FontsIdle
    /\ \E ss \in SeqsUpTo(AlignerSpans, MaxAlignerSpans) :
          output_lines = [ i \in 1..Len(ss) |-> << ss[i] >> ]
    /\ \A ord \in Perms(ClusterIds) : ClustersOf(output_lines, ord).cluster_id <= MaxClusters
    /\ pretty = [ run \in Runs |-> NotRun ]
    /\ plain = NotWritten
    /\ ProcIdle

NextAligner == \E run \in Runs : to_string_pretty(run)

SpecAligner == InitAligner /\ [][NextAligner]_vars

(***************************************************************************)
(* Display on lines drawn from a bounded set: up to MaxPlainLines lines of *)
(* up to two spans, texts "hello" and "world", at two distances.           *)
(***************************************************************************)
PlainTexts == { << "h", "e", "l", "l", "o" >>, << "w", "o", "r", "l", "d" >> }

PlainLefts == { 0, 300 }

PlainSpans ==
    { [ text |-> t,
        bbox |-> [ t |-> 10, r |-> l + 25, b |-> 0, l |-> l ],
        font_size |-> 10,
        page_num |-> 1 ] : t \in PlainTexts, l \in PlainLefts }

InitPlain ==
    /\ AsmIdle
    /\ FontsIdle
    /\ output_lines \in SeqsUpTo(SeqsUpTo(PlainSpans, 2), MaxPlainLines)
    /\ pretty = [ run \in Runs |-> NotRun ]
    /\ plain = NotWritten
    /\ ProcIdle

NextPlain == to_string_plain

SpecPlain == InitPlain /\ [][NextPlain]_vars

(***************************************************************************)
(* Properties of the assembler and of line assembly.                       *)
(***************************************************************************)
Indices(s) == 1..Len(s)

NonEmptyLines == { i \in Indices(lines) : lines[i] # << >> }

\* i and j are non-empty lines with only empty lines between them
Adjacent(i, j) ==
    /\ i \in NonEmptyLines
    /\ j \in NonEmptyLines
    /\ i < j
    /\ \A k \in (i + 1)..(j - 1) : lines[k] = << >>

\* C1: every span the assembler has emitted has non-empty text, whatever
\* calls were made and also when glyphs decode to the empty string.
C1_SpanTextNonEmpty == \A i \in Indices(spans) : spans[i].text # << >>

\* a span was emitted after a buffer seeded by an empty glyph text
C1_Witness ==
    /\ Len(glyphs) >= 2
    /\ glyphs[1] = << >>
    /\ Len(spans) >= 1

C3_LinesSortedByBaseline ==
    pc = "done" =>
        \A i, j \in NonEmptyLines :
            (i < j /\ lines[i][1].page_num = lines[j][1].page_num)
                => FLe(lines[i][1].bbox.b, lines[j][1].bbox.b)

\* C4: no line returned by into_lines holds spans of different pages.
C4_LineOnePage ==
    pc = "done" =>
        \A i \in Indices(lines) : \A k, m \in Indices(lines[i]) :
            lines[i][k].page_num = lines[i][m].page_num

\* spans of two pages were emitted with the later page first
C4_Witness ==
    /\ pc = "done"
    /\ Len(spans) >= 2
    /\ spans[1].page_num > spans[2].page_num
    /\ spans[1].bbox.b = spans[2].bbox.b
    /\ Len(lines) >= 2

\* C5: the last line of a page and the first line of the next page that has
\* spans are separated by exactly one empty line.
C5_OnePageSeparator ==
    pc = "done" =>
        \A i, j \in Indices(lines) :
            (Adjacent(i, j) /\ lines[i][1].page_num # lines[j][1].page_num) => j = i + 2

\* one span on each of two pages, more than 24 points apart: [[A], [], [B]]
C5_Witness ==
    /\ pc = "done"
    /\ Len(spans) = 2
    /\ spans[1].page_num # spans[2].page_num
    /\ FAbs(spans[1].bbox.b - spans[2].bbox.b) > BLANK_LINE_THRESHOLD_POINTS
    /\ Len(lines) = 3
    /\ lines[2] = << >>

\* the separators the claim expects between two spans consecutive in sort order
ExpectedSeparators(a, b) ==
    LET y_gap == FAbs(b.bbox.b - a.bbox.b)
        n     == RoundDiv(y_gap - POINTS_PER_LINE, POINTS_PER_LINE)
    IN  IF a.page_num # b.page_num THEN 1
        ELSE IF y_gap > BLANK_LINE_THRESHOLD_POINTS THEN (IF n >= 1 THEN n ELSE 1)
        ELSE 0

RECURSIVE SumExpected(_)
SumExpected(s) ==
    IF Len(s) < 2 THEN 0
    ELSE ExpectedSeparators(s[1], s[2]) + SumExpected(SubSeq(s, 2, Len(s)))

\* C6: between the lines of two spans that are consecutive in sort order on
\* one page and y_gap > 24 apart, into_lines pushes round((y_gap - 10)/10)
\* empty lines, at least one; so the empty lines of the result number the
\* page separators plus these blank separators.
C6_BlankLineCount ==
    pc = "done" =>
        Cardinality(Indices(lines) \ NonEmptyLines) = SumExpected(SortByPageTop(spans))

\* C7: every emitted span has bbox.l <= bbox.r and bbox.b <= bbox.t.
C7_BoxOrdered ==
    \A i \in Indices(spans) :
        /\ FLe(spans[i].bbox.l, spans[i].bbox.r)
        /\ FLe(spans[i].bbox.b, spans[i].bbox.t)

(***************************************************************************)
(* Properties of decode_char.                                              *)
(***************************************************************************)
\* the ToUnicode map of the font has an entry for char that is empty or
\* contains U+0000
BadToUnicodeEntry(f, char) ==
    /\ f.unicode_map.some
    /\ char \in DOMAIN f.unicode_map.map
    /\ (f.unicode_map.map[char] = << >> \/ ContainsNul(f.unicode_map.map[char]))

\* C8: no font variant returns from decode_char a ToUnicode string that is
\* empty or contains U+0000: such an entry counts as missing and the value
\* comes from the next fallback.
C8_NoNulFromToUnicode ==
    (decoded.called /\ BadToUnicodeEntry(font, decoded.char))
        => decoded.source # "tounicode"

\* the font dictionary without the ToUnicode entry of char
WithoutEntry(dict, char) ==
    [ dict EXCEPT !.to_unicode.cmap =
        [ k \in (DOMAIN dict.to_unicode.cmap) \ { char } |-> dict.to_unicode.cmap[k] ] ]

\* the fallback chain the claim names
ExpectedFallback(f, char) ==
    IF f.fallback_unicode.some /\ char \in DOMAIN f.fallback_unicode.map
    THEN f.fallback_unicode.map[char]
    ELSE IF f.width_fallback.some /\ char \in DOMAIN f.width_fallback.map
    THEN f.width_fallback.map[char]
    ELSE << >>

\* C9: for a CID font, decoding a CID whose ToUnicode entry is U+0000 or
\* empty returns what decoding returns when the entry is absent: the
\* embedded-font fallback if it has the CID, else the width-based fallback,
\* else the empty string.
C9_NulSameAsAbsent ==
    (decoded.called /\ font.subtype = "Type0" /\ BadToUnicodeEntry(font, decoded.char))
        => /\ decoded.s = ExpectedFallback(font, decoded.char)
           /\ decoded.s =
                PdfCIDFont_decode_char(BuildFont(WithoutEntry(fontdict, decoded.char)),
                                       decoded.char).s

\* a CID whose ToUnicode entry is U+0000 decoded through the embedded font
C9_Witness ==
    /\ decoded.called
    /\ font.subtype = "Type0"
    /\ BadToUnicodeEntry(font, decoded.char)
    /\ font.unicode_map.map[decoded.char] = << 0 >>
    /\ decoded.source = "embedded"
    /\ decoded.s = << 45 >>


(***************************************************************************)
(* Properties of the pretty printer.                                       *)
(***************************************************************************)
\* C10: two extractions of the same input yield identical output: the list
\* of right-aligned column positions and the pretty-printed text do not
\* depend on the iteration order of the hash map.
\* every cluster the aligner created has its place in the iteration order
ClustersWithinBound ==
    \A ord \in Perms(ClusterIds) : ClustersOf(output_lines, ord).cluster_id <= MaxClusters

C10_Deterministic ==
    (pretty[1].done /\ pretty[2].done)
        => /\ pretty[1].positions = pretty[2].positions
           /\ pretty[1].text = pretty[2].text


\* the mean right edge of a cluster is within 8 points of the edge
WithinEight(edges, cluster) ==
    LET n == Len(cluster)
        d == edges.right_x * n - SumRight(cluster)
    IN  d < 8 * n /\ -d < 8 * n

\* the step the claim allows for one edge: it joins a cluster whose mean is
\* within 8 points, and starts a cluster only when there is none
JoinsAsClaimed(before, after, edges) ==
    LET near == { id \in DOMAIN before.clusters : WithinEight(edges, before.clusters[id]) }
    IN  IF near = { }
        THEN /\ DOMAIN after.clusters = DOMAIN before.clusters \cup { before.cluster_id }
             /\ after.clusters[before.cluster_id] = << edges >>
             /\ \A id \in DOMAIN before.clusters : after.clusters[id] = before.clusters[id]
        ELSE /\ DOMAIN after.clusters = DOMAIN before.clusters
             /\ \E id \in near :
                   /\ after.clusters[id] = Append(before.clusters[id], edges)
                   /\ \A other \in DOMAIN before.clusters \ { id } :
                         after.clusters[other] = before.clusters[other]

\* the four conditions of the claim on a cluster
QualifiesAsClaimed(cluster) ==
    LET n      == Len(cluster)
        lefts  == { cluster[i].left_x : i \in 1..n }
        rights == { cluster[i].right_x : i \in 1..n }
        mean10 == (10 * SumRight(cluster))
    IN  /\ n >= 3
        /\ \A a, b \in rights : 10 * (a - b) < 37
        /\ mean10 >= 2000 * n
        /\ IF mean10 >= 4500 * n
           THEN \E a, b \in lefts : a - b >= 5
           ELSE \E a, b \in lefts : a - b >= 50

\* the means of the clusters that qualify, in the order the clusters are met
RECURSIVE MeansAsClaimed(_, _)
MeansAsClaimed(clusters, ord) ==
    IF ord = << >> THEN << >>
    ELSE LET rest == MeansAsClaimed(clusters, Tail(ord))
         IN  IF Head(ord) \in DOMAIN clusters /\ QualifiesAsClaimed(clusters[Head(ord)])
             THEN << Fraction(SumRight(clusters[Head(ord)]), Len(clusters[Head(ord)])) >> \o rest
             ELSE rest

NoClusters == [ clusters |-> << >>, cluster_id |-> 0 ]

\* C16: every edge joins an existing cluster whose mean right edge is within
\* 8 points of it, or else starts a new cluster; and the columns reported are
\* the mean right edges of exactly the clusters with at least 3 edges,
\* max_right - min_right < 3.7, mean >= 200, and max_left - min_left >= 5
\* when the mean is >= 450 and >= 50 otherwise.
C16_ColumnsAsClaimed ==
    LET all_edges == AllEdges(output_lines)
    IN  /\ \A ord \in Perms(ClusterIds) : \A k \in 1..Len(all_edges) :
              JoinsAsClaimed(Clusters(NoClusters, ord, SubSeq(all_edges, 1, k - 1)),
                             Clusters(NoClusters, ord, SubSeq(all_edges, 1, k)),
                             all_edges[k])
        /\ \A run \in Runs :
              pretty[run].done =>
                  \E ord \in Perms(ClusterIds) :
                      pretty[run].positions =
                          MeansAsClaimed(ClustersOf(output_lines, ord).clusters, ord)

\* a column at 500 whose left edges vary by 5 points, and a cluster near 300
\* whose left edges vary by 49 points and is not a column
C16_Witness ==
    /\ pretty[1].done
    /\ Len(output_lines) = 4
    /\ pretty[1].positions = << [ num |-> 500, den |-> 1 ] >>
    /\ \E i \in 1..4 : output_lines[i][1].bbox.r = 300

(***************************************************************************)
(* Properties of output_character on a buffer that is not empty.           *)
(***************************************************************************)
\* the position of an incoming glyph
GlyphX(trm) == Then(trm, flip_ctm)[5]

GlyphY(trm) == Then(trm, flip_ctm)[6]

\* the claim's three tests, on gap = x - (buf_end_x after the zero-width patch)
FlushAsClaimed(x, y, tfs) ==
    LET gap   == FSub(x, PatchedEndX(x, y, tfs))
        y_gap == FAbs(FSub(y, last_y))
    IN  \/ FGt(FMul(10, y_gap), FMul(15, tfs))
        \/ (FLt(x, PatchedEndX(x, y, tfs)) /\ FGt(FMul(10, y_gap), FMul(5, tfs)))
        \/ RatioAbsGt(gap, tfs, 120)

\* the buffer was closed into a span and a new one holds the incoming glyph
ClosedAndRestarted(char) ==
    /\ Len(spans') = Len(spans) + 1
    /\ spans'[Len(spans')].text = buf
    /\ SubSeq(spans', 1, Len(spans)) = spans
    /\ buf' = NormalizedChar(char)

\* C17: on output_character with a non-empty buffer, the buffer is closed
\* into a span and a new buffer starts with the incoming glyph if and only if
\* y_gap > 1.5 tfs, or x < buf_end_x and y_gap > 0.5 tfs, or |gap_ratio| > 1.2,
\* with the gap measured after the zero-width patch of buf_end_x.
C17_FlushIff ==
    [][ \A trm \in GlyphTrms, width \in Widths, font_size \in FontSizes, char \in Texts :
          (output_character(trm, width, font_size, char) /\ buf # << >>) =>
              (ClosedAndRestarted(char) <=>
                   FlushAsClaimed(GlyphX(trm), GlyphY(trm), TransformedFontSize(trm, font_size)))
      ]_vars

\* a span closed by the second test alone: the glyph starts left of the
\* buffer's end, 8 points off the line, at font size 10
C17_Witness ==
    /\ Len(spans) = 1
    /\ Len(glyphs) = 2
    /\ buf # << >>
    /\ FAbs(FSub(last_y, spans[1].bbox.b)) = 8
    /\ FLt(last_x, spans[1].bbox.r)
    /\ FLe(FSub(spans[1].bbox.r, last_x), 12)

\* C18: when a glyph is appended to a non-empty buffer without a flush,
\* exactly one space is inserted before it if gap_ratio > 0.15 and the
\* buffer's last character is not whitespace, and nothing otherwise; a glyph
\* whose text is a tab is appended as a single space.
C18_SpaceInsertion ==
    [][ \A trm \in GlyphTrms, width \in Widths, font_size \in FontSizes, char \in Texts :
          LET x     == GlyphX(trm)
              y     == GlyphY(trm)
              tfs   == TransformedFontSize(trm, font_size)
              glyph == IF char = << "\t" >> THEN << " " >> ELSE char
              wide  == RatioGt(FSub(x, PatchedEndX(x, y, tfs)), tfs, 15)
              last  == buf[Len(buf)]
          IN  (output_character(trm, width, font_size, char) /\ buf # << >>
                  /\ ~ClosedAndRestarted(char)) =>
                  /\ spans' = spans
                  /\ buf' = IF wide /\ last # " " /\ last # "\t"
                            THEN buf \o << " " >> \o glyph
                            ELSE buf \o glyph
      ]_vars

\* a space inserted by a gap of 0.2 font sizes before a tab, itself appended
\* as a space
C18_Witness ==
    /\ buf = << "a", " ", " " >>
    /\ glyphs = << << "a" >>, << "\t" >> >>

(***************************************************************************)
(* Properties of the TJ operator.                                          *)
(***************************************************************************)
IsTranslation(m) == m[1] = 1 /\ m[2] = 0 /\ m[3] = 0 /\ m[4] = 1

\* the array walked so far ends with the string (a) and the number n
SeparatedBy(a, n) ==
    /\ Top.elems[Len(Top.elems) - 1] = String(a)
    /\ Top.elems[Len(Top.elems)] = Integer(n)

\* horizontal scaling 1, character spacing 0, translation-only Tm and CTM
PlainTextState ==
    /\ Top.gs.ts.horizontal_scaling = 1
    /\ Top.gs.ts.character_spacing = 0
    /\ IsTranslation(Top.gs.ts.tm)
    /\ IsTranslation(Top.gs.ctm)

\* a numeric element emits no glyph and moves Tm by
\* horizontal_scaling * (-n/1000) * font_size along x
NumberMovesTm ==
    \A n \in Adjustments :
        TJ_Integer(n) =>
            /\ UNCHANGED << glyphs, spans, buf, shows >>
            /\ LET ts == Top.gs.ts
                   tx == IF IsNaN(ts.font_size) THEN NaN
                         ELSE ts.horizontal_scaling * ((-n * ts.font_size) \div 1000)
               IN  frames'[Len(frames')].gs.ts.tm = Then(<< 1, 0, 0, 1, tx, 0 >>, ts.tm)

\* what the claim says of the string (c) shown after the number n, with
\* r = -n/1000: one span without a space for r in [-1.2, 0.15], one inserted
\* space for r in (0.15, 1.2], a new span for |r| > 1.2
ShownAsClaimed(n, c) ==
    IF -n >= -1200 /\ -n <= 150
    THEN spans' = spans /\ buf' = buf \o FontText(c)
    ELSE IF -n > 150 /\ -n <= 1200
    THEN spans' = spans /\ buf' = buf \o << " " >> \o FontText(c)
    ELSE /\ Len(spans') = Len(spans) + 1
         /\ spans'[Len(spans')].text = buf
         /\ buf' = FontText(c)

\* C19 as stated: in a TJ array a number n emits no glyph and moves Tm by
\* horizontal_scaling * (-n/1000) * font_size; with horizontal scaling 1,
\* character spacing 0 and translation-only Tm and CTM, two strings separated
\* by n stay in one span without a space, get one inserted space, or start a
\* new span, by the interval -n/1000 lies in.
C19_AdjustmentAsStated ==
    [][ /\ NumberMovesTm
        /\ (xpc = "ops" /\ Top.in_array /\ Len(Top.elems) >= 2) =>
           \A a \in FontCodes, n \in Adjustments, c \in FontCodes :
              (SeparatedBy(a, n) /\ PlainTextState /\ TJ_String(c) /\ Top.gs.ts.font) =>
                  ShownAsClaimed(n, c)
      ]_vars

\* C19, amended: the same, for finite translations Tm and CTM and a first
\* string whose last glyph has a non-zero width and a text that does not end
\* in whitespace, with word spacing 0 and a positive font size.
C19_AdjustmentAmended ==
    [][ /\ NumberMovesTm
        /\ (xpc = "ops" /\ Top.in_array /\ Len(Top.elems) >= 2) =>
           \A a \in FontCodes, n \in Adjustments, c \in FontCodes :
              (SeparatedBy(a, n) /\ PlainTextState /\ TJ_String(c) /\ Top.gs.ts.font
                  /\ get_width(a) # 0
                  /\ buf # << >> /\ ~is_whitespace(buf[Len(buf)])
                  /\ Top.gs.ts.word_spacing = 0
                  /\ FGt(Top.gs.ts.font_size, 0)
                  /\ ~IsNaN(Top.gs.ts.tm[5]) /\ ~IsNaN(Top.gs.ts.tm[6])
                  /\ ~IsNaN(Top.gs.ctm[5]) /\ ~IsNaN(Top.gs.ctm[6])) =>
                  ShownAsClaimed(n, c)
      ]_vars

\* [(A) -120 (A)] TJ has left the single buffer "AA"
C19_Witness ==
    /\ xpc = "ops"
    /\ Top.elems = << String(65), Integer(-120), String(65) >>
    /\ spans = << >>
    /\ buf = << "A", "A" >>

(***************************************************************************)
(* Properties of PdfCIDFont::next_char.                                    *)
(***************************************************************************)
\* the value of the first n bytes, big-endian
RECURSIVE ValueOf(_, _)
ValueOf(bytes, n) == IF n = 0 THEN 0 ELSE ValueOf(bytes, n - 1) * 256 + bytes[n]

\* n is the first number of bytes whose value lies in a codespace range of width n
FirstCode(n) ==
    /\ n <= Len(iter)
    /\ InCodespace(encoding, ValueOf(iter, n), n)
    /\ \A m \in 1..(n - 1) : ~InCodespace(encoding, ValueOf(iter, m), m)

\* k is the first CID range that holds the code
FirstRange(k, code) ==
    /\ code >= encoding.cid[k].src_code_lo
    /\ code <= encoding.cid[k].src_code_hi
    /\ \A j \in 1..(k - 1) :
          ~(code >= encoding.cid[j].src_code_lo /\ code <= encoding.cid[j].src_code_hi)

\* C20: next_char reads 1 to 4 bytes until the accumulated value lies in a
\* codespace range whose width is the number of bytes read, and returns as
\* CID dst_CID_lo + (code - src_lo) for the CID range (src_lo, src_hi,
\* dst_CID_lo) that holds the code, also when src_lo is not 0.
C20_CidThroughRange ==
    [][ next_char =>
          \A n \in 1..4 : \A k \in DOMAIN encoding.cid :
              (FirstCode(n) /\ FirstRange(k, ValueOf(iter, n))) =>
                  /\ iter' = SubSeq(iter, n + 1, Len(iter))
                  /\ char_read'.some
                  /\ char_read'.width = n
                  /\ char_read'.cid = encoding.cid[k].dst_CID_lo
                                          + (ValueOf(iter, n) - encoding.cid[k].src_code_lo)
      ]_vars

(***************************************************************************)
(* Properties of the widths of a CID font.                                 *)
(***************************************************************************)
\* the entries of W from index i are of the two forms the claim names
RECURSIVE WellFormedW(_, _)
WellFormedW(w, i) ==
    IF i > Len(w) THEN TRUE
    ELSE IF i + 1 <= Len(w) /\ w[i].kind = "Integer" /\ w[i + 1].kind = "Array"
    THEN WellFormedW(w, i + 2)
    ELSE /\ i + 2 <= Len(w)
         /\ w[i].kind = "Integer" /\ w[i + 1].kind = "Integer" /\ w[i + 2].kind = "Integer"
         /\ WellFormedW(w, i + 3)

\* the width the claim gives to cid by the entries of W from index i, or dw
\* (a later entry replaces an earlier one)
RECURSIVE WidthByW(_, _, _, _)
WidthByW(w, i, cid, dw) ==
    IF i > Len(w) THEN dw
    ELSE IF w[i + 1].kind = "Array"
    THEN LET rest == WidthByW(w, i + 2, cid, dw)
             k    == cid - w[i].v + 1
         IN  IF rest # dw \/ k < 1 \/ k > Len(w[i + 1].a) THEN rest ELSE w[i + 1].a[k]
    ELSE LET rest == WidthByW(w, i + 3, cid, dw)
         IN  IF rest # dw \/ cid < w[i].v \/ cid > w[i + 1].v THEN rest ELSE w[i + 2].v

CidsChecked == 0..4

\* C21: an entry [first last width] of W gives width to every CID from first
\* to last, an entry [cid [w1 w2 ...]] gives w1, w2, ... to cid, cid + 1, ...,
\* and every other CID gets DW, 1000 when DW is absent.
C21_WidthsFromW ==
    (cidwidths.state # "none" /\ ciddict.w.some /\ WellFormedW(ciddict.w.v, 1)) =>
        /\ cidwidths.state = "built"
        /\ \A cid \in CidsChecked :
              PdfCIDFont_get_width(cidwidths, cid)
                  = WidthByW(ciddict.w.v, 1, cid,
                             IF ciddict.dw.some THEN ciddict.dw.v ELSE 1000)

(***************************************************************************)
(* Properties of decode_char of a simple font.                             *)
(***************************************************************************)
\* the entry of an encoding table for a code, as a string
TableEntry(table, c) == IF table[c] = 0 THEN << >> ELSE << table[c] >>

\* C22: for a simple font decode_char returns the ToUnicode string when
\* ToUnicode has an entry for the code, otherwise the encoding-table entry,
\* otherwise the empty string; it returns normally, with the empty string,
\* when a ToUnicode map exists but lacks the code and there is no encoding
\* table.
C22_SimpleFontChain ==
    (decoded.called /\ font.subtype \in { "Type1", "Type3" }) =>
        /\ decoded.source # "panic"
        /\ font_pc = "ready"
        /\ IF font.unicode_map.some /\ decoded.char \in DOMAIN font.unicode_map.map
           THEN decoded.s = font.unicode_map.map[decoded.char]
           ELSE IF font.encoding.some
           THEN decoded.s = TableEntry(font.encoding.table, decoded.char)
           ELSE font.unicode_map.some => decoded.s = << >>

(***************************************************************************)
(* Properties of Display.                                                  *)
(***************************************************************************)
\* the texts of the spans of a line, one space between neighbours
RECURSIVE JoinBySpace(_)
JoinBySpace(texts) ==
    IF texts = << >> THEN << >>
    ELSE IF Len(texts) = 1 THEN texts[1]
    ELSE texts[1] \o << " " >> \o JoinBySpace(Tail(texts))

TextsOf(line) == [ k \in 1..Len(line) |-> line[k].text ]

RECURSIVE ExpectedPlain(_)
ExpectedPlain(ls) ==
    IF ls = << >> THEN << >>
    ELSE ExpectedPlain(SubSeq(ls, 1, Len(ls) - 1))
            \o JoinBySpace(TextsOf(ls[Len(ls)])) \o << "\n" >>

\* C11: the plain text is, line by line in order, the texts of the line's
\* spans joined by exactly one space and followed by a newline, whatever the
\* bounding boxes; an empty line is a bare newline.
C11_PlainText == plain.done => plain.text = ExpectedPlain(output_lines)

\* "hello" and "world" 275 points apart on one line, after an empty line
C11_Witness ==
    /\ plain.done
    /\ Len(output_lines) = 2
    /\ output_lines[1] = << >>
    /\ Len(output_lines[2]) = 2
    /\ output_lines[2][1].bbox.r + 275 = output_lines[2][2].bbox.l
    /\ plain.text = << "\n", "h", "e", "l", "l", "o", " ", "w", "o", "r", "l", "d", "\n" >>

(***************************************************************************)
(* Properties of an extraction.                                            *)
(***************************************************************************)
\* the pages of the spans returned
PagesOfLines == UNION { { lines[i][k].page_num : k \in 1..Len(lines[i]) } : i \in Indices(lines) }

\* the pages whose own content stream failed to decode
FailedPages == { e.page : e \in { w \in log : w.kind = "decode" /\ w.depth = 1 } }

\* the pages on which a glyph was shown
ShownPages == { shows[i].page : i \in Indices(shows) }

\* C12: when the content stream of a page fails to decode, the page
\* contributes no span, no error is returned, and the other pages are still
\* processed and their spans returned.
C12_UndecodablePageSkipped ==
    /\ (FailedPages # { }) => result # "err"
    /\ \A i \in Indices(spans) : spans[i].page_num \notin FailedPages
    /\ (FailedPages # { } /\ xpc = "done")
          => /\ result = "ok"
             /\ page_no = npages
             /\ PagesOfLines = ShownPages
             /\ PagesOfLines \cap FailedPages = { }

\* page 1 of two failed to decode, and the span of page 2 is returned
C12_Witness ==
    /\ xpc = "done"
    /\ result = "ok"
    /\ npages = 2
    /\ FailedPages = { 1 }
    /\ PagesOfLines = { 2 }

\* C13: an encrypted document is decrypted with the configured password, or
\* with the empty password when none is configured; when that fails, an
\* error is returned and there is no text output.
C13_DecryptOrFail ==
    [][ /\ \A doc \in Documents :
              extract_from_document(doc) =>
                  IF doc.encrypted /\ doc.password # (IF password.some THEN password.v ELSE "")
                  THEN xpc' = "done" /\ result' = "err"
                  ELSE xpc' # "done" /\ result' = "none"
        /\ (result' = "err") => (lines' = << >> /\ spans' = << >> /\ pc' = "pages")
      ]_vars

\* no password configured, and the empty password did not decrypt
C13_Witness ==
    /\ xpc = "done"
    /\ result = "err"
    /\ ~password.some
    /\ lines = << >>

\* C14: a span made of text shown inside a form XObject, at any depth of
\* Do, carries the number of the page whose content stream issued the Do:
\* every span is pushed with the page number of the page being processed,
\* and no text is buffered across the start of a page.
C14_FormSpansOnCallerPage ==
    [][ /\ (Len(spans') > Len(spans)) => spans'[Len(spans')].page_num = page_no
        /\ (xpc' = "begin") => buf' = << >>
      ]_vars

\* a glyph shown two forms deep on page 2, in a span of page 2
C14_Witness ==
    /\ xpc = "done"
    /\ result = "ok"
    /\ shows = << [ page |-> 2, depth |-> 3 ] >>
    /\ Len(spans) = 1
    /\ spans[1].page_num = 2

\* C15: a Q executed with nothing saved leaves the graphics state as it is,
\* raises no error, and the next operator is interpreted.
C15_UnderflowIgnored ==
    [][ (Op_Q /\ Top.gs_stack = << >>)
            => /\ frames' = frames
               /\ xpc' = "ops"
               /\ result' = "none"
               /\ UNCHANGED asmVars
      ]_vars

\* Tf, then a Q with nothing saved, then a glyph shown in the font selected
C15_Witness ==
    /\ xpc = "ops"
    /\ nops = 3
    /\ \E w \in log : w.kind = "pop" /\ w.at = 1
    /\ Top.gs.ts.font
    /\ Len(glyphs) = 1

\* C23: while one page is processed, a font object is built at most once
\* for a font resource name, however often Tf selects the name, after q and
\* Q, and inside the form XObjects invoked with Do.
C23_FontBuiltOncePerPage == made <= 1

\* the value of the nearest dictionary on the Parent chain from d that holds
\* the key with the type asked for, none at a dictionary without a
\* resolvable Parent, looking at no more than n + 1 dictionaries
RECURSIVE NearestOnChain(_, _)
NearestOnChain(d, n) ==
    IF pagetree[d].entry \in Values THEN pagetree[d].entry
    ELSE IF pagetree[d].parent = NoParent \/ n = 0 THEN "none"
    ELSE NearestOnChain(pagetree[d].parent, n - 1)

NoDictTwice(visited) ==
    \A i, j \in DOMAIN visited : visited[i] = visited[j] => i = j

\* C24: get_inherited returns the value of the nearest dictionary on the
\* Parent chain, starting at the dictionary itself, that holds the key with
\* the requested type, and none once a dictionary without a resolvable
\* Parent is reached; no dictionary is visited twice and the walk stops.
C24_InheritedFromNearest ==
    /\ (walk.state = "returned")
            => walk.result = NearestOnChain(walk.visited[1], MaxDepth)
    /\ NoDictTwice(walk.visited)
    /\ walk.state # "overflow"

\* C25: the Q that matches a q restores the whole graphics state (CTM,
\* font, font size, character and word spacing, horizontal scaling,
\* leading, rise, Tm, soft mask, line width) that was current when the q
\* executed, whatever balanced operators came between.
C25_RestoredByMatchingQ ==
    [][ (Op_Q /\ Top.at_q # << >>)
            => frames'[Len(frames)].gs = Top.at_q[Len(Top.at_q)]
      ]_vars

\* a Tf between a q and its Q: the font has been built, and the state is
\* again the one without a font that was current at the q
C25_Witness ==
    /\ xpc = "ops"
    /\ nops = 4
    /\ Len(frames) = 1
    /\ Top.font_table = { FontName }
    /\ Top.gs = InitialGraphicsState
    /\ Top.gs_stack = << >>
    /\ Top.at_q = << >>

\* C26: interpreting a page terminates for every document with finitely
\* many operators, also when the stream of a form XObject invokes itself
\* with Do, directly or through a cycle of XObjects.
C26_PageTerminates == <>(calls.state = "returned")

TabsAsSpaces(text) == [ i \in DOMAIN text |-> IF text[i] = "\t" THEN " " ELSE text[i] ]

\* the texts of the glyph events of page p, tabs as spaces, in event order
RECURSIVE GlyphTextOn(_, _)
GlyphTextOn(p, n) ==
    IF n = 0 THEN << >>
    ELSE GlyphTextOn(p, n - 1)
            \o (IF shows[n].page = p THEN TabsAsSpaces(glyphs[n]) ELSE << >>)

\* the texts of the spans of page p in emission order, and then what is
\* buffered when p is the page in progress
RECURSIVE SpanTextOn(_, _)
SpanTextOn(p, n) ==
    IF n = 0 THEN << >>
    ELSE SpanTextOn(p, n - 1) \o (IF spans[n].page_num = p THEN spans[n].text ELSE << >>)

EmittedOn(p) == SpanTextOn(p, Len(spans)) \o (IF current_page = p THEN buf ELSE << >>)

\* e is g with spaces inserted (one in front of a glyph of empty text can
\* come last)
RECURSIVE IsSpaceInsertion(_, _)
IsSpaceInsertion(g, e) ==
    IF g = << >> THEN \A i \in DOMAIN e : e[i] = " "
    ELSE IF e = << >> THEN FALSE
    ELSE \/ e[1] = g[1] /\ IsSpaceInsertion(SubSeq(g, 2, Len(g)), SubSeq(e, 2, Len(e)))
         \/ e[1] = " " /\ IsSpaceInsertion(g, SubSeq(e, 2, Len(e)))

\* C28: the texts of the spans emitted for a page, in emission order and
\* without the spaces the assembler inserted, are the texts of the page's
\* glyph events with tabs as spaces, nothing dropped, duplicated or
\* reordered; after end_page nothing is buffered, so no text is carried
\* into the next page.
C28_PageTextPreserved ==
    /\ \A p \in 1..MaxPages :
          IsSpaceInsertion(GlyphTextOn(p, Len(glyphs)), EmittedOn(p))
    /\ (xpc \in { "begin", "lines", "done" }) => buf = << >>

\* two pages, a tab shown on the first and a letter on the second: a span
\* of one space on page 1 and a span of the letter on page 2
C28_Witness ==
    /\ xpc = "done"
    /\ glyphs = << << "\t" >>, << "a" >> >>
    /\ shows[1].page = 1
    /\ shows[2].page = 2
    /\ Len(spans) = 2
    /\ spans[1].text = << " " >>
    /\ spans[2].text = << "a" >>
    /\ spans[2].page_num = 2

\* C29: Do leaves the caller's graphics state, saved-state stack, Tlm and
\* font cache as they are, for as long as the form is interpreted and when
\* it returns; the form's stream starts from the default graphics state
\* (identity CTM and Tm, no font, empty stack), with the XObject's own
\* Resources or else the caller's, and with the page number, the media box
\* and the output of the caller.
C29_DoStartsFresh ==
    [][ /\ \A xf \in Forms :
              Op_Do_form(xf, TRUE) =>
                  LET form == frames'[Len(frames')]
                  IN  /\ Len(frames') = Len(frames) + 1
                      /\ form.gs.ctm = Identity
                      /\ form.gs.ts.tm = Identity
                      /\ ~form.gs.ts.font
                      /\ form.gs = InitialGraphicsState
                      /\ form.gs_stack = << >>
                      /\ form.resources = (IF xf.resources.some THEN xf.resources.v
                                           ELSE Top.resources)
                      /\ page_no' = page_no
                      /\ UNCHANGED asmVars
        /\ \A k \in 1..Len(frames) :
              (k < Len(frames) \/ Len(frames') > Len(frames))
                  => (Len(frames') >= k => frames'[k] = frames[k])
      ]_vars

\* a form with Resources of its own invoked after cm, Tf and q: the caller
\* keeps its state, and the form has the default one
C29_Witness ==
    /\ xpc = "ops"
    /\ Len(frames) = 2
    /\ frames[1].gs.ctm # Identity
    /\ frames[1].gs.ts.font
    /\ frames[1].gs_stack # << >>
    /\ frames[1].font_table = { FontName }
    /\ frames[2].gs = InitialGraphicsState
    /\ frames[2].resources = "form"

\* C30: Tj, or a string element of TJ, executed while the current graphics
\* state has no font (no Tf yet in this stream, or Q restored a state saved
\* before the Tf) aborts the extraction with a panic: no glyph of the string
\* reaches the output, nothing is interpreted afterwards and no result, not
\* even a partial one, is returned.
C30_NoFontPanics ==
    /\ [][ /\ \A c \in FontCodes :
                 ((Op_Tj(c) \/ TJ_String(c)) /\ ~Top.gs.ts.font)
                     => /\ xpc' = "panicked"
                        /\ UNCHANGED << glyphs, spans, buf >>
           /\ (xpc = "panicked") => xpc' = "panicked"
         ]_vars
    /\ [](xpc = "panicked" => (result = "none" /\ lines = << >> /\ pc = "pages"))

\* q, Tf, Q and then Tj: the font was built, Q restored the state without a
\* font, and the extraction has panicked
C30_Witness ==
    /\ xpc = "panicked"
    /\ nops = 4
    /\ Len(frames) = 1
    /\ Top.font_table = { FontName }
    /\ ~Top.gs.ts.font
    /\ result = "none"
    /\ lines = << >>

====
